---- MODULE Spec2Model ----
(***************************************************************************)
(* A model of jitsi-slack: the Slack request verifier (ValidRequest), the  *)
(* conference token generator (TokenGenerator.CreateJWT) and the /jitsi    *)
(* slash command handler.                                                  *)
(*                                                                         *)
(* Text is modelled as a sequence of one-character strings, so that        *)
(* concatenation, parsing and formatting are computed and not assumed.     *)
(* Time is an integer count of clock units; SubSec units make one second   *)
(* (the Go clock has 10^9 of them), and Unix() truncates to whole seconds. *)
(***************************************************************************)
EXTENDS Integers, Sequences, FiniteSets, TLC

VARIABLES
    clock,      \* time.Now(), in clock units
    vsecret,    \* ValidRequest: slackSigningSecret
    vbody,      \* ValidRequest: requestBody
    vts,        \* ValidRequest: timestamp (the header text)
    vsig,       \* ValidRequest: slackSignature (the header text)
    vres,       \* ValidRequest: the value returned for the request at hand
    vat,        \* time.Now().Unix() read by that call
    vfirst,     \* the request verified before the one at hand, and its result
    gen,        \* the TokenGenerator (its fields are set once, by main)
    jin,        \* CreateJWT: the JWTInput of the latest call
    jat,        \* time.Now() read by that call, in clock units
    jout,       \* what that call returned: token and error
    jprev,      \* the call before it: input, instant and result
    tokenStore, \* the token table: team id -> access token ("" when no item)
    serverStore,\* the server table: team id -> server ("" when no item)
    req,        \* the HTTP request handled last
    resp,       \* the response to it
    calls,      \* the calls made while handling it, in order
    sent,       \* the direct messages posted to Slack while handling it
    conc,       \* requests handled concurrently: the random source they share
                \* and the local variables of each
    outcome,    \* what DynamoDB, Slack and RandomName returned during it
    process     \* main and the goroutine it starts: where each is, the
                \* requests being served and whether the process has exited

verifyVars == <<vsecret, vbody, vts, vsig, vres, vat, vfirst>>

tokenVars == <<gen, jin, jat, jout, jprev>>

httpVars == <<tokenStore, serverStore, req, resp, calls, sent, conc, outcome, process>>

vars == <<clock, vsecret, vbody, vts, vsig, vres, vat, vfirst,
          gen, jin, jat, jout, jprev,
          tokenStore, serverStore, req, resp, calls, sent, conc, outcome, process>>

----------------------------------------------------------------------------
(* Bounds of the model *)

\* clock units per second
SubSec == 2
\* how far the clock advances in a behaviour, in clock units
MaxTicks == 2
\* longest request body tried, in characters
MaxBodyLen == 1

----------------------------------------------------------------------------
(* Time *)

\* the instant at which a behaviour starts: 300 s after the epoch
ClockStart == 300 * SubSec

Unix(t) == t \div SubSec

Abs(x) == IF x < 0 THEN -x ELSE x

----------------------------------------------------------------------------
(* strconv.ParseInt(s, 10, 64) *)

DigitChars == <<"0", "1", "2", "3", "4", "5", "6", "7", "8", "9">>

IsDigit(c) == \E i \in 1..10 : DigitChars[i] = c

DigitVal(c) == (CHOOSE i \in 1..10 : DigitChars[i] = c) - 1

RECURSIVE ParseUint(_)
ParseUint(ds) ==
    IF ds = <<>> THEN 0
    ELSE ParseUint(SubSeq(ds, 1, Len(ds) - 1)) * 10 + DigitVal(ds[Len(ds)])

\* An optional sign, then one or more decimal digits. A value outside int64
\* is an error too; it takes 19 digits, more than any header tried here.
ParseInt(s) ==
    LET signed == Len(s) > 0 /\ s[1] \in {"+", "-"}
        neg    == Len(s) > 0 /\ s[1] = "-"
        ds     == IF signed THEN Tail(s) ELSE s
    IN  IF ds = <<>> \/ \E i \in 1..Len(ds) : ~IsDigit(ds[i])
        THEN [err |-> TRUE, val |-> 0]
        ELSE [err |-> FALSE, val |-> IF neg THEN -ParseUint(ds) ELSE ParseUint(ds)]

----------------------------------------------------------------------------
(* ValidRequest *)

SignatureVersion == <<"v", "0">>

FreshnessWindow == 300

\* A plain SHA-256 of the message in place of the keyed HMAC.
HmacHex_Unkeyed(key, msg) == [key |-> "", msg |-> msg]

\* hex(HMAC-SHA256(key, msg)): the digest is taken to identify its key and
\* message, so two digests are equal exactly when key and message are.
HmacHex(key, msg) == [key |-> key, msg |-> msg]

\* The format string "%s:%s%s": no delimiter before the body.
SigBaseString_NoBodyDelimiter(timestamp, requestBody) ==
    SignatureVersion \o <<":">> \o timestamp \o requestBody

\* fmt.Sprintf("%s:%s:%s", SignatureVersion, timestamp, requestBody)
SigBaseString(timestamp, requestBody) ==
    SignatureVersion \o <<":">> \o timestamp \o <<":">> \o requestBody

\* fmt.Sprintf("%s=%s", SignatureVersion, hex.EncodeToString(hasher.Sum(nil)))
MySignature(secret, sigBaseString) ==
    [ver |-> SignatureVersion, mac |-> HmacHex(secret, sigBaseString)]

\* strconv.FormatInt(n, 10)
RECURSIVE FormatUint(_)
FormatUint(n) ==
    IF n < 10 THEN <<DigitChars[n + 1]>>
    ELSE Append(FormatUint(n \div 10), DigitChars[(n % 10) + 1])

FormatInt(n) == IF n < 0 THEN <<"-">> \o FormatUint(-n) ELSE FormatUint(n)

\* The age test without math.Abs: a timestamp from the future is never stale.
ValidRequest_NoAbs(slackSigningSecret, requestBody, timestamp, slackSignature, now) ==
    LET ts == ParseInt(timestamp)
    IN  IF ts.err THEN FALSE
        ELSE IF now - ts.val > FreshnessWindow THEN FALSE
        ELSE MySignature(slackSigningSecret, SigBaseString(timestamp, requestBody))
                 = slackSignature

\* The signing base built from the parsed integer ("%s:%d:%s" with ts) and
\* not from the header text.
ValidRequest_ParsedTimestamp(slackSigningSecret, requestBody, timestamp, slackSignature, now) ==
    LET ts == ParseInt(timestamp)
    IN  IF ts.err THEN FALSE
        ELSE IF Abs(now - ts.val) > FreshnessWindow THEN FALSE
        ELSE MySignature(slackSigningSecret, SigBaseString(FormatInt(ts.val), requestBody))
                 = slackSignature

ValidRequest(slackSigningSecret, requestBody, timestamp, slackSignature, now) ==
    LET ts == ParseInt(timestamp)
    IN  IF ts.err THEN FALSE
        ELSE IF Abs(now - ts.val) > FreshnessWindow THEN FALSE
        ELSE MySignature(slackSigningSecret, SigBaseString(timestamp, requestBody))
                 = slackSignature

\* The X-Slack-Signature header Slack computes for a request.
SlackSignature(secret, body, timestamp) ==
    [ver |-> SignatureVersion,
     mac |-> HmacHex(secret, <<"v", "0", ":">> \o timestamp \o <<":">> \o body)]

\* An absent signature header, and one that is no v0 signature.
NoSignature == [ver |-> <<>>, mac |-> HmacHex("", <<>>)]
BadSignature == [ver |-> <<"v", "1">>, mac |-> HmacHex("", <<>>)]

----------------------------------------------------------------------------
(* TokenGenerator.CreateJWT *)

\* time.Hour * 24, the Lifetime main configures
Hours24 == 24 * 3600 * SubSec

\* userClaim with `json:",omitempty"` tags: an empty string drops its field.
MarshalUserClaim_OmitEmpty(u) ==
    LET all  == [id |-> u.ID, name |-> u.DisplayName, avatar |-> u.AvatarURL]
        kept == {k \in DOMAIN all : all[k] # ""}
    IN  [k \in kept |-> all[k]]

\* json.Marshal of a userClaim: the struct tags name the fields.
MarshalUserClaim(u) ==
    [id |-> u.ID, name |-> u.DisplayName, avatar |-> u.AvatarURL]

\* json.Marshal of a contextClaim
MarshalContextClaim(c) ==
    [user |-> MarshalUserClaim(c.User), group |-> c.Group]

\* exp taken as now.Unix() + int64(g.Lifetime): the Duration read as seconds.
MapClaims_LifetimeAsSeconds(g, in, now) ==
    [iss  |-> g.Issuer,
     nbf  |-> Unix(now),
     exp  |-> Unix(now) + g.Lifetime,
     sub  |-> in.TenantName,
     aud  |-> g.Audience,
     room |-> in.RoomClaim,
     context |-> [User  |-> [DisplayName |-> in.UserName,
                             ID          |-> in.UserID,
                             AvatarURL   |-> in.AvatarURL],
                  Group |-> in.TenantName]]

\* sub taken from in.TenantID.
MapClaims_SubIsTenantID(g, in, now) ==
    [iss  |-> g.Issuer,
     nbf  |-> Unix(now),
     exp  |-> Unix(now + g.Lifetime),
     sub  |-> in.TenantID,
     aud  |-> g.Audience,
     room |-> in.RoomClaim,
     context |-> [User  |-> [DisplayName |-> in.UserName,
                             ID          |-> in.UserID,
                             AvatarURL   |-> in.AvatarURL],
                  Group |-> in.TenantName]]

\* now := time.Now().Truncate(time.Minute)
MapClaims_TruncatedToMinute(g, in, now) ==
    LET minute == (now \div (60 * SubSec)) * (60 * SubSec)
    IN  [iss  |-> g.Issuer,
         nbf  |-> Unix(minute),
         exp  |-> Unix(minute + g.Lifetime),
         sub  |-> in.TenantName,
         aud  |-> g.Audience,
         room |-> in.RoomClaim,
         context |-> [User  |-> [DisplayName |-> in.UserName,
                                 ID          |-> in.UserID,
                                 AvatarURL   |-> in.AvatarURL],
                      Group |-> in.TenantName]]

\* The jwt.MapClaims CreateJWT builds; exp := now.Add(g.Lifetime).
MapClaims(g, in, now) ==
    [iss  |-> g.Issuer,
     nbf  |-> Unix(now),
     exp  |-> Unix(now + g.Lifetime),
     sub  |-> in.TenantName,
     aud  |-> g.Audience,
     room |-> in.RoomClaim,
     context |-> [User  |-> [DisplayName |-> in.UserName,
                             ID          |-> in.UserID,
                             AvatarURL   |-> in.AvatarURL],
                  Group |-> in.TenantName]]

\* The payload segment, decoded: json.Marshal of the MapClaims.
MarshalClaims(c) ==
    [iss |-> c.iss, nbf |-> c.nbf, exp |-> c.exp, sub |-> c.sub, aud |-> c.aud,
     room |-> c.room, context |-> MarshalContextClaim(c.context)]

\* kid read from the key blob.
TokenHeader_KidFromKey(g) ==
    [typ |-> "JWT", alg |-> "RS256", kid |-> g.PrivateKey.name]

\* jwt.NewWithClaims(jwt.SigningMethodRS256, claims); token.Header["kid"] = g.Kid
TokenHeader(g) ==
    [typ |-> "JWT", alg |-> "RS256", kid |-> g.Kid]

\* dataurl.DecodeString, then x509.ParsePKCS8PrivateKey. A key blob is
\* described by whether it is a well-formed data URL, by the DER structure
\* its payload holds, and by a name for the key.
\* calls lists the library calls made on the blob.
LoadPrivateKey(blob) ==
    IF ~blob.dataurl
    THEN [err |-> "dataurl", key |-> blob, calls |-> <<"dataurl.DecodeString">>]
    ELSE IF blob.der \notin {"pkcs8-rsa", "pkcs8-ec"}
    THEN [err |-> "x509", key |-> blob,
          calls |-> <<"dataurl.DecodeString", "x509.ParsePKCS8PrivateKey">>]
    ELSE [err |-> "", key |-> blob,
          calls |-> <<"dataurl.DecodeString", "x509.ParsePKCS8PrivateKey">>]

\* token.SignedString(privateKey): RS256 signs with an RSA key only. The
\* signature is taken to identify the key and the segments it covers.
SignedString(header, payload, key) ==
    IF key.der # "pkcs8-rsa" THEN [token |-> "", err |-> "key is invalid"]
    ELSE [token |-> [header |-> header, payload |-> payload,
                     signature |-> [key |-> key.name, over |-> <<header, payload>>]],
          err |-> ""]

\* The result of a call: the token, the error, and in loads the calls that
\* decoded and parsed the key blob during this call.
CreateJWT(g, in, now) ==
    LET signed(loaded, s) == [token |-> s.token, err |-> s.err, loads |-> loaded.calls]
        sign(loaded) ==
            IF loaded.err # ""
            THEN [token |-> "", err |-> loaded.err, loads |-> loaded.calls]
            ELSE signed(loaded, SignedString(TokenHeader(g),
                                             MarshalClaims(MapClaims(g, in, now)),
                                             loaded.key))
    IN  sign(LoadPrivateKey(g.PrivateKey))

----------------------------------------------------------------------------
(* The generators and inputs CreateJWT is tried on *)

KeyBlobs ==
    { [dataurl |-> TRUE,  der |-> "pkcs8-rsa", name |-> "key-A"],
      [dataurl |-> TRUE,  der |-> "pkcs1-rsa", name |-> "key-B"],
      [dataurl |-> TRUE,  der |-> "pkcs8-ec",  name |-> "key-C"],
      [dataurl |-> TRUE,  der |-> "garbage",   name |-> "key-D"],
      [dataurl |-> FALSE, der |-> "pkcs8-rsa", name |-> "key-E"] }

\* Lifetimes: the 24 hours of main, a minute and a half, and one second and
\* one clock unit (not a whole number of seconds).
Lifetimes == {Hours24, 90 * SubSec, SubSec + 1}

Generators ==
    [Lifetime : Lifetimes, PrivateKey : KeyBlobs,
     Issuer : {"jitsi-iss"}, Audience : {"jitsi-aud"}, Kid : {"kid-1", "kid-2"}]

JWTInputs ==
    [TenantID : {"T1", "T2"}, TenantName : {"acme", ""}, RoomClaim : {"abc"},
     UserID : {"U1"}, UserName : {"Alice", ""}, AvatarURL : {"", "https://a/u1.png"}]

NoInput ==
    [TenantID |-> "", TenantName |-> "", RoomClaim |-> "", UserID |-> "",
     UserName |-> "", AvatarURL |-> ""]

NoOutput == [token |-> "", err |-> "not called", loads |-> <<>>]

NoCall == [in |-> NoInput, at |-> 0, out |-> NoOutput]

\* The generator main builds, and no call made.
TokensIdle ==
    /\ gen = [Lifetime |-> Hours24,
              PrivateKey |-> [dataurl |-> TRUE, der |-> "pkcs8-rsa", name |-> "key-A"],
              Issuer |-> "jitsi-iss", Audience |-> "jitsi-aud", Kid |-> "kid-1"]
    /\ jin = NoInput /\ jat = 0 /\ jout = NoOutput /\ jprev = NoCall

----------------------------------------------------------------------------
(* http.ResponseWriter, as the handlers use it *)

NoURL == [path |-> <<>>, auth |-> FALSE, jwt |-> ""]

\* a response body: which message, and the host and URL put into it
Msg(kind, host, url) == [msg |-> kind, host |-> host, url |-> url]

NewWriter == [status |-> 0, ctype |-> "", body |-> <<>>, panicked |-> FALSE]

\* w.WriteHeader(code): only the first one counts.
WriteHeader(w, code) == IF w.status = 0 THEN [w EXCEPT !.status = code] ELSE w

\* w.Header().Set("Content-type", t): no effect once the header is written.
SetContentType(w, t) == IF w.status = 0 THEN [w EXCEPT !.ctype = t] ELSE w

\* w.Write(b): writes the header with 200 if none was written yet; an empty b
\* adds nothing to the body.
Write(w, b) ==
    LET h == WriteHeader(w, 200)
    IN  IF b.msg = "" THEN h ELSE [h EXCEPT !.body = Append(@, b)]

\* What net/http does when the handler returns: 200 if no header was written.
Finish(w) == WriteHeader(w, 200)

\* A panic in the handler: net/http recovers it and drops the connection.
Panic(w) == [w EXCEPT !.panicked = TRUE]

----------------------------------------------------------------------------
(* The form body of a slash command. The raw body is a sequence of tokens:  *)
(* words, "=", "&", "+" (an encoded space) and "%" (a malformed escape).    *)

RECURSIVE SplitOn(_, _)
\* strings.Split(s, sep)
SplitOn(s, sep) ==
    IF \A i \in 1..Len(s) : s[i] # sep THEN <<s>>
    ELSE LET i == CHOOSE j \in 1..Len(s) :
                      s[j] = sep /\ \A k \in 1..(j - 1) : s[k] # sep
         IN  <<SubSeq(s, 1, i - 1)>> \o SplitOn(SubSeq(s, i + 1, Len(s)), sep)

\* url.QueryUnescape: "+" is a space
Unescape(s) == [i \in 1..Len(s) |-> IF s[i] = "+" THEN " " ELSE s[i]]

\* url.QueryEscape
Escape(s) == [i \in 1..Len(s) |-> IF s[i] = " " THEN "+" ELSE s[i]]

\* r.ParseForm() on the body: the key/value pairs in order, or an error.
ParseForm(body) ==
    LET pairs == SplitOn(body, "&")
        kv(p) == LET parts == SplitOn(p, "=")
                 IN  [key |-> Unescape(parts[1]),
                      value |-> Unescape(SubSeq(p, Len(parts[1]) + 2, Len(p)))]
        kept  == SelectSeq(pairs, LAMBDA p : p # <<>>)
    IN  [err |-> \E i \in 1..Len(body) : body[i] = "%",
         form |-> [i \in 1..Len(kept) |-> kv(kept[i])]]

\* r.PostFormValue(key): the first value of the key, "" if there is none.
PostFormValue(form, key) ==
    IF \A i \in 1..Len(form) : form[i].key # <<key>> THEN <<>>
    ELSE form[CHOOSE i \in 1..Len(form) :
                  form[i].key = <<key>> /\ \A k \in 1..(i - 1) : form[k].key # <<key>>].value

\* a form value that is one word, as a string
Word(v) == IF Len(v) = 1 THEN v[1] ELSE ""

----------------------------------------------------------------------------
(* The regular expressions and string functions, on words *)

\* the words that start with "help" and with "server"
HasPrefix(word, prefix) ==
    <<word, prefix>> \in {<<"help", "help">>, <<"helpdesk", "help">>,
                          <<"server", "server">>, <<"servers", "server">>}

\* helpCmdRE = `^help`
helpCmdRE(text) == Len(text) > 0 /\ HasPrefix(text[1], "help")

\* serverCmdRE = `^server`
serverCmdRE(text) == Len(text) > 0 /\ HasPrefix(text[1], "server")

\* a word of the form <http://...> or <https://...>
IsBracketedURL(word) ==
    word \in {"<https://own.example>", "<https://two.example>", "<https://meet.jit.si>"}

\* strings.Trim(host, "<>")
TrimAngles(word) ==
    CASE word = "<https://own.example>" -> "https://own.example"
      [] word = "<https://two.example>" -> "https://two.example"
      [] word = "<https://meet.jit.si>" -> "https://meet.jit.si"
      [] OTHER -> word

\* the index of the first word after the spaces that follow the word at i
RECURSIVE SkipSpaces(_, _)
SkipSpaces(text, i) ==
    IF i <= Len(text) /\ text[i] = " " THEN SkipSpaces(text, i + 1) ELSE i

\* serverConfigRE = `^server\s+(<https?:\/\/\S+>)`: the submatch, "" if none
serverConfigRE(text) ==
    LET i == SkipSpaces(text, 2)
    IN  IF Len(text) >= 3 /\ text[1] = "server" /\ text[2] = " "
           /\ i <= Len(text) /\ IsBracketedURL(text[i])
        THEN text[i] ELSE ""

\* the user id in a word of the form <@ID> or <@ID|name>, "" for other words
MentionID(word) ==
    CASE word = "<@U2>" -> "U2"
      [] word = "<@U3|bob>" -> "U3"
      [] OTHER -> ""

\* atMentionRE = `<@([^>|]+)`: the submatches, in order of appearance
atMentionRE(text) ==
    LET ids == [i \in 1..Len(text) |-> MentionID(text[i])]
    IN  SelectSeq(ids, LAMBDA id : id # "")

\* strings.ToLower
ToLower(s) == IF s = "Acme" THEN "acme" ELSE s

----------------------------------------------------------------------------
(* ServerCfgStore, TokenStore and MeetingGenerator *)

Teams == {"T1", "T2"}

\* JITSI_CONFERENCE_HOST
DefaultServer == "https://meet.jit.si"

\* SLACK_APP_SHARABLE_URL
SharableURL == "https://slack.example/install"

\* SLACK_SIGNING_SECRET
SlackSigningSecret == "shh"

\* the item stored under a key, "" when there is none
Item(table, key) == IF key \in DOMAIN table THEN table[key] ELSE ""

\* authTenantSupportTest of main: true for the default conference host only
authTenantSupportTest(srv) == srv = DefaultServer

NoServerCfg ==
    [Server |-> "", TenantScopedURLs |-> FALSE, AuthenticatedURLSupport |-> FALSE]

\* ServerCfgStore.Get. db is what DynamoDB does: "ok", "error" (the query
\* fails: result is nil and result.Items panics) or "unmarshal" (the stored
\* attribute is no string).
ServerCfgGet(table, teamID, db) ==
    LET server == Item(table, teamID)
        cfg(srv) == [Server |-> srv,
                     TenantScopedURLs |-> authTenantSupportTest(srv),
                     AuthenticatedURLSupport |-> authTenantSupportTest(srv)]
    IN  IF db = "error" THEN [panic |-> TRUE, err |-> "", cfg |-> NoServerCfg]
        ELSE IF server = "" THEN [panic |-> FALSE, err |-> "", cfg |-> cfg(DefaultServer)]
        ELSE IF db = "unmarshal" THEN [panic |-> FALSE, err |-> "unmarshal", cfg |-> NoServerCfg]
        ELSE [panic |-> FALSE, err |-> "", cfg |-> cfg(server)]

\* A store that keeps one server for the whole table instead of one per team.
ServerCfgStore_OneRow(table, data, db) ==
    IF db = "error" THEN [err |-> "dynamodb", table |-> table]
    ELSE [err |-> "", table |-> [t \in DOMAIN table \cup {data.TeamID} |-> data.Server]]

\* ServerCfgStore.Store
ServerCfgStore(table, data, db) ==
    IF db = "error" THEN [err |-> "dynamodb", table |-> table]
    ELSE [err |-> "", table |-> [t \in DOMAIN table \cup {data.TeamID} |->
                                    IF t = data.TeamID THEN data.Server ELSE table[t]]]

\* ServerCfgStore.Remove
ServerCfgRemove(table, teamID, db) ==
    IF db = "error" THEN [err |-> "dynamodb", table |-> table]
    ELSE [err |-> "", table |-> [t \in DOMAIN table |-> IF t = teamID THEN "" ELSE table[t]]]

\* TokenStore.GetTokenForTeam
GetTokenForTeam(table, teamID, db) ==
    IF db = "error" THEN [err |-> "dynamodb", token |-> ""]
    ELSE IF Item(table, teamID) = "" THEN [err |-> "not_authed", token |-> ""]
    ELSE [err |-> "", token |-> Item(table, teamID)]

NoMeeting ==
    [RoomName |-> "", URL |-> <<>>, Host |-> "", auth |-> FALSE,
     teamID |-> "", teamName |-> ""]

\* A meeting whose URL always gets a token.
MeetingFor_AlwaysAuthenticated(srv, teamID, teamName, room) ==
    [RoomName |-> room, Host |-> srv.Server,
     URL |-> IF srv.TenantScopedURLs
             THEN <<srv.Server, "/", ToLower(teamName), "/", room>>
             ELSE <<srv.Server, "/", room>>,
     auth |-> TRUE, teamID |-> teamID, teamName |-> teamName]

\* The meeting MeetingGenerator.New builds for the configuration srv. room is
\* what RandomName returns; auth tells which of the two AuthenticatedURL
\* closures the meeting got, teamID and teamName are what the closure
\* captures.
MeetingFor(srv, teamID, teamName, room) ==
    [RoomName |-> room,
     Host |-> srv.Server,
     URL |-> IF srv.TenantScopedURLs
             THEN <<srv.Server, "/", ToLower(teamName), "/", room>>
             ELSE <<srv.Server, "/", room>>,
     auth |-> srv.AuthenticatedURLSupport,
     teamID |-> teamID, teamName |-> teamName]

\* MeetingGenerator.New
MeetingNew(teamID, teamName, room, table, db) ==
    LET got == ServerCfgGet(table, teamID, db)
    IN  IF got.panic \/ got.err # ""
        THEN [panic |-> got.panic, err |-> got.err, mtg |-> NoMeeting]
        ELSE [panic |-> FALSE, err |-> "",
              mtg |-> MeetingFor(got.cfg, teamID, teamName, room)]

\* mtg.AuthenticatedURL(userID, userName, avatarURL)
AuthenticatedURL(mtg, userID, userName, avatarURL, g, now) ==
    LET withToken(jwt) ==
            IF jwt.err # ""
            THEN [url |-> NoURL, err |-> jwt.err, calls |-> <<"CreateJWT">>]
            ELSE [url |-> [path |-> mtg.URL, auth |-> TRUE, jwt |-> jwt.token],
                  err |-> "", calls |-> <<"CreateJWT">>]
    IN  IF mtg.auth
        THEN withToken(CreateJWT(g, [TenantID |-> mtg.teamID, TenantName |-> mtg.teamName,
                                     RoomClaim |-> mtg.RoomName, UserID |-> userID,
                                     UserName |-> userName, AvatarURL |-> avatarURL], now))
        ELSE [url |-> [path |-> mtg.URL, auth |-> FALSE, jwt |-> ""],
              err |-> "", calls |-> <<>>]

----------------------------------------------------------------------------
(* The Slack messages *)

SlackErrors ==
    {"invalid_auth", "account_inactive", "not_authed", "cannot_dm_bot", "ratelimited"}

NoFailure == [failAt |-> "none", err |-> ""]

\* what the Slack API does during one invitation: which call fails, and how
InviteOutcomes ==
    {NoFailure} \cup
    [failAt : {"GetUserInfo"}, err : SlackErrors] \cup
    [failAt : {"OpenConversation", "PostMessage"}, err : {"cannot_dm_bot"}] \cup
    [failAt : {"PostMessage"}, err : {"invalid_auth"}]

JoinOutcomes ==
    {NoFailure} \cup [failAt : {"GetUserInfo"}, err : {"invalid_auth", "ratelimited"}]

\* what slackClient.GetUserInfo returns for a user id
UserInfo(id) ==
    [ID |-> id,
     Name |-> CASE id = "U1" -> "alice" [] id = "U2" -> "bob" [] OTHER -> "",
     Image192 |-> IF id = "U1" THEN "https://a/u1.png" ELSE ""]

sendPersonalizedInvite(token, hostID, userID, meeting, o, g, now) ==
    LET invite(userInfo, a) ==
            IF o.failAt = "GetUserInfo"
            THEN [err |-> o.err, calls |-> <<"slack.GetUserInfo">>, sent |-> <<>>]
            ELSE IF a.err # ""
            THEN [err |-> a.err, calls |-> <<"slack.GetUserInfo">> \o a.calls, sent |-> <<>>]
            ELSE IF o.failAt = "OpenConversation"
            THEN [err |-> o.err,
                  calls |-> <<"slack.GetUserInfo">> \o a.calls
                                \o <<"slack.OpenConversation">>,
                  sent |-> <<>>]
            ELSE [err |-> o.err,
                  calls |-> <<"slack.GetUserInfo">> \o a.calls
                                \o <<"slack.OpenConversation", "slack.PostMessage">>,
                  sent |-> IF o.failAt = "PostMessage" THEN <<>>
                           ELSE <<[to |-> userID, from |-> hostID, host |-> meeting.Host,
                                   url |-> a.url, token |-> token]>>]
        asUser(userInfo) ==
            invite(userInfo, AuthenticatedURL(meeting, userInfo.ID, userInfo.Name,
                                              userInfo.Image192, g, now))
    IN  asUser(UserInfo(userID))

joinPersonalMeetingMsg(token, userID, meeting, o, g, now) ==
    LET join(a) ==
            IF o.failAt = "GetUserInfo"
            THEN [resp |-> Msg("", "", NoURL), err |-> o.err,
                  calls |-> <<"slack.GetUserInfo">>]
            ELSE IF a.err # ""
            THEN [resp |-> Msg("", "", NoURL), err |-> a.err,
                  calls |-> <<"slack.GetUserInfo">> \o a.calls]
            ELSE [resp |-> Msg("user", meeting.Host, a.url), err |-> "",
                  calls |-> <<"slack.GetUserInfo">> \o a.calls]
        asUser(userInfo) ==
            join(AuthenticatedURL(meeting, userInfo.ID, userInfo.Name,
                                  userInfo.Image192, g, now))
    IN  asUser(UserInfo(userID))

----------------------------------------------------------------------------
(* The handlers of the /jitsi slash command *)

Unauthorized == 401
InternalServerError == 500
OK == 200

\* The rejection of a request ValidRequest refuses without its `return false`:
\* 401 is written and the handler goes on.
handleRequestValidation_NoReturn(w, r, secret, now) ==
    IF r.ts = <<>> \/ r.sig = NoSignature
    THEN [ok |-> FALSE, w |-> WriteHeader(w, Unauthorized), body |-> <<>>]
    ELSE IF r.readErr
    THEN [ok |-> FALSE, w |-> WriteHeader(w, InternalServerError), body |-> <<>>]
    ELSE IF ~ValidRequest(secret, r.body, r.ts, r.sig, now)
    THEN [ok |-> TRUE, w |-> WriteHeader(w, Unauthorized), body |-> r.body]
    ELSE [ok |-> TRUE, w |-> w, body |-> r.body]

\* The validation without line 68: the body read for the signature is not
\* put back, and the handler finds r.Body drained.
handleRequestValidation_BodyDrained(w, r, secret, now) ==
    IF r.ts = <<>> \/ r.sig = NoSignature
    THEN [ok |-> FALSE, w |-> WriteHeader(w, Unauthorized), body |-> <<>>]
    ELSE IF r.readErr
    THEN [ok |-> FALSE, w |-> WriteHeader(w, InternalServerError), body |-> <<>>]
    ELSE IF ~ValidRequest(secret, r.body, r.ts, r.sig, now)
    THEN [ok |-> FALSE, w |-> WriteHeader(w, Unauthorized), body |-> <<>>]
    ELSE [ok |-> TRUE, w |-> w, body |-> <<>>]

handleRequestValidation(w, r, secret, now) ==
    IF r.ts = <<>> \/ r.sig = NoSignature
    THEN [ok |-> FALSE, w |-> WriteHeader(w, Unauthorized), body |-> <<>>]
    ELSE IF r.readErr
    THEN [ok |-> FALSE, w |-> WriteHeader(w, InternalServerError), body |-> <<>>]
    ELSE IF ~ValidRequest(secret, r.body, r.ts, r.sig, now)
    THEN [ok |-> FALSE, w |-> WriteHeader(w, Unauthorized), body |-> <<>>]
    ELSE [ok |-> TRUE, w |-> w, body |-> r.body]

help(w) ==
    Write(WriteHeader(SetContentType(w, "application/json"), OK), Msg("help", "", NoURL))

install(w, sharableURL) ==
    Write(WriteHeader(SetContentType(w, "application/json"), OK),
          Msg("install", sharableURL, NoURL))

configureServer(w, form, table, db) ==
    LET teamID == Word(PostFormValue(form, "team_id"))
        text == PostFormValue(form, "text")
        host == TrimAngles(serverConfigRE(text))
        remove(removed) ==
            [w |-> IF removed.err # "" THEN WriteHeader(w, InternalServerError)
                   ELSE Write(WriteHeader(w, OK), Msg("default-set", "", NoURL)),
             calls |-> <<"ServerConfigWriter.Remove">>, sent |-> <<>>,
             servers |-> removed.table]
        store(stored) ==
            [w |-> IF stored.err # "" THEN WriteHeader(w, InternalServerError)
                   ELSE Write(WriteHeader(SetContentType(w, "application/json"), OK),
                              Msg("server-set", host, NoURL)),
             calls |-> <<"ServerConfigWriter.Store">>, sent |-> <<>>,
             servers |-> stored.table]
        configure(configuration) ==
            IF Len(configuration) < 2
            THEN [w |-> Write(w, Msg("usage", "", NoURL)),
                  calls |-> <<>>, sent |-> <<>>, servers |-> table]
            ELSE IF configuration[2] = <<"default">>
            THEN remove(ServerCfgRemove(table, teamID, db))
            ELSE IF serverConfigRE(text) = ""
            THEN [w |-> Write(WriteHeader(SetContentType(w, "application/json"), OK),
                              Msg("bad-host", "", NoURL)),
                  calls |-> <<>>, sent |-> <<>>, servers |-> table]
            ELSE store(ServerCfgStore(table, [TeamID |-> teamID, Server |-> host], db))
    IN  configure(SplitOn(text, " "))

AuthErrors == {"invalid_auth", "account_inactive", "not_authed"}

\* the concatenation of a sequence of sequences
RECURSIVE Concat(_)
Concat(seqs) == IF seqs = <<>> THEN <<>> ELSE Head(seqs) \o Concat(Tail(seqs))

\* A loop that any error ends: the index of the first result with an error.
FirstAuthError_AnyError(rs) ==
    IF \A i \in 1..Len(rs) : rs[i].err = "" THEN 0
    ELSE CHOOSE i \in 1..Len(rs) :
             rs[i].err # "" /\ \A j \in 1..(i - 1) : rs[j].err = ""

\* A loop that no error ends.
FirstAuthError_Never(rs) == 0

\* the index of the first result with an authentication error, 0 if none
FirstAuthError(rs) ==
    IF \A i \in 1..Len(rs) : rs[i].err \notin AuthErrors THEN 0
    ELSE CHOOSE i \in 1..Len(rs) :
             rs[i].err \in AuthErrors /\ \A j \in 1..(i - 1) : rs[j].err \notin AuthErrors

\* The loop of dispatchInvites over the mentions. outs[i] is what Slack does
\* during the i-th invitation; an authentication error ends the loop (stop)
\* with the install message, any other error is logged and the loop goes on.
InviteEach(ids, outs, token, callerID, meeting, g, now) ==
    LET upTo(rs, k) ==
            [stop |-> k # 0,
             calls |-> Concat([i \in 1..(IF k = 0 THEN Len(rs) ELSE k) |-> rs[i].calls]),
             sent |-> Concat([i \in 1..(IF k = 0 THEN Len(rs) ELSE k) |-> rs[i].sent])]
        loop(rs) == upTo(rs, FirstAuthError(rs))
    IN  loop([i \in 1..Len(ids) |->
                 sendPersonalizedInvite(token, callerID, ids[i], meeting, outs[i], g, now)])

\* dispatchInvites with the token of the team read before the mentions are
\* looked for: a command without mentions needs an installed team too.
dispatchInvites_TokenFirst(w, form, ext, tokens, servers, g, now) ==
    LET teamID == Word(PostFormValue(form, "team_id"))
        teamName == Word(PostFormValue(form, "team_domain"))
        callerID == Word(PostFormValue(form, "user_id"))
        c0 == <<"RandomName", "ServerConfigReader.Get">>
        c1 == <<"RandomName", "ServerConfigReader.Get", "TokenReader.GetTokenForTeam">>
        json == SetContentType(w, "application/json")
        answer(inv, join) ==
            [w |-> IF inv.stop \/ join.err \in AuthErrors THEN install(w, SharableURL)
                   ELSE Write(WriteHeader(json, OK), join.resp),
             calls |-> IF inv.stop THEN c1 \o inv.calls
                       ELSE c1 \o inv.calls \o join.calls,
             sent |-> inv.sent, servers |-> servers]
        invite(matches, mtg, tok) ==
            IF tok.err = "not_authed"
            THEN [w |-> install(w, SharableURL), calls |-> c1, sent |-> <<>>,
                  servers |-> servers]
            ELSE IF tok.err # ""
            THEN [w |-> WriteHeader(w, InternalServerError), calls |-> c1, sent |-> <<>>,
                  servers |-> servers]
            ELSE IF matches = <<>>
            THEN [w |-> Write(WriteHeader(json, OK),
                              Msg("room", mtg.Host,
                                  [path |-> mtg.URL, auth |-> FALSE, jwt |-> ""])),
                  calls |-> c1, sent |-> <<>>, servers |-> servers]
            ELSE answer(InviteEach(matches, ext.invites, tok.token, callerID, mtg, g, now),
                        joinPersonalMeetingMsg(tok.token, callerID, mtg, ext.join, g, now))
        dispatch(m, matches) ==
            IF m.panic THEN [w |-> Panic(w), calls |-> c0, sent |-> <<>>, servers |-> servers]
            ELSE IF m.err # ""
            THEN [w |-> WriteHeader(w, InternalServerError), calls |-> c0, sent |-> <<>>,
                  servers |-> servers]
            ELSE invite(matches, m.mtg, GetTokenForTeam(tokens, teamID, ext.tokDb))
    IN  dispatch(MeetingNew(teamID, teamName, ext.room, servers, ext.cfgDb),
                 atMentionRE(PostFormValue(form, "text")))

\* ext is what the collaborators do during the request: the room name drawn,
\* the outcome of the DynamoDB calls and of the Slack calls.
dispatchInvites(w, form, ext, tokens, servers, g, now) ==
    LET teamID == Word(PostFormValue(form, "team_id"))
        teamName == Word(PostFormValue(form, "team_domain"))
        callerID == Word(PostFormValue(form, "user_id"))
        c0 == <<"RandomName", "ServerConfigReader.Get">>
        c1 == <<"RandomName", "ServerConfigReader.Get", "TokenReader.GetTokenForTeam">>
        json == SetContentType(w, "application/json")
        answer(inv, join) ==
            [w |-> IF inv.stop \/ join.err \in AuthErrors THEN install(w, SharableURL)
                   ELSE Write(WriteHeader(json, OK), join.resp),
             calls |-> IF inv.stop THEN c1 \o inv.calls
                       ELSE c1 \o inv.calls \o join.calls,
             sent |-> inv.sent, servers |-> servers]
        invite(matches, mtg, tok) ==
            IF tok.err = "not_authed"
            THEN [w |-> install(w, SharableURL), calls |-> c1, sent |-> <<>>,
                  servers |-> servers]
            ELSE IF tok.err # ""
            THEN [w |-> WriteHeader(w, InternalServerError), calls |-> c1, sent |-> <<>>,
                  servers |-> servers]
            ELSE answer(InviteEach(matches, ext.invites, tok.token, callerID, mtg, g, now),
                        joinPersonalMeetingMsg(tok.token, callerID, mtg, ext.join, g, now))
        dispatch(m, matches) ==
            IF m.panic THEN [w |-> Panic(w), calls |-> c0, sent |-> <<>>, servers |-> servers]
            ELSE IF m.err # ""
            THEN [w |-> WriteHeader(w, InternalServerError), calls |-> c0, sent |-> <<>>,
                  servers |-> servers]
            ELSE IF matches = <<>>
            THEN [w |-> Write(WriteHeader(json, OK),
                              Msg("room", m.mtg.Host,
                                  [path |-> m.mtg.URL, auth |-> FALSE, jwt |-> ""])),
                  calls |-> c0, sent |-> <<>>, servers |-> servers]
            ELSE invite(matches, m.mtg, GetTokenForTeam(tokens, teamID, ext.tokDb))
    IN  dispatch(MeetingNew(teamID, teamName, ext.room, servers, ext.cfgDb),
                 atMentionRE(PostFormValue(form, "text")))

\* SlashCommandHandlers.Jitsi on request r: the response written, the calls
\* made, the messages posted and the server table afterwards.
JitsiHandler(r, ext, tokens, servers, g, now) ==
    LET parsed(out) == [out EXCEPT !.calls = <<"ParseForm">> \o @]
        route(w, form, text) ==
            IF helpCmdRE(text)
            THEN [w |-> help(w), calls |-> <<"ParseForm">>, sent |-> <<>>,
                  servers |-> servers]
            ELSE IF serverCmdRE(text)
            THEN parsed(configureServer(w, form, servers, ext.cfgDb))
            ELSE parsed(dispatchInvites(w, form, ext, tokens, servers, g, now))
        decode(w, p) ==
            IF p.err
            THEN [w |-> WriteHeader(w, InternalServerError),
                  calls |-> <<"ParseForm">>, sent |-> <<>>, servers |-> servers]
            ELSE route(w, p.form, PostFormValue(p.form, "text"))
        handle(v) ==
            IF ~v.ok
            THEN [w |-> v.w, calls |-> <<>>, sent |-> <<>>, servers |-> servers]
            ELSE decode(v.w, ParseForm(v.body))
    IN  handle(handleRequestValidation(NewWriter, r, SlackSigningSecret, Unix(now)))

----------------------------------------------------------------------------
(* The requests the /jitsi handler is tried on *)

\* the text of a command, as words and spaces
CommandTexts ==
    { <<>>, <<"hi">>, <<"help">>, <<"helpdesk", " ", "<@U2>">>,
      <<"server">>, <<"server", " ", "default">>,
      <<"server", " ", "<https://own.example>">>,
      <<"server", " ", "own.example">>,
      <<"<@U2>">> }

\* the form-encoded body Slack posts for a command
SlashBody(text, teamID) ==
    <<"text", "=">> \o Escape(text)
        \o <<"&", "team_id", "=", teamID, "&", "team_domain", "=", "Acme",
             "&", "user_id", "=", "U1">>

\* Team T1 sends every command; team T2 starts a meeting and invites.
SlashBodies ==
    {SlashBody(t, "T1") : t \in CommandTexts}
        \cup {SlashBody(t, "T2") : t \in {<<>>, <<"<@U2>">>}}
        \cup {<<"text", "=", "%">>}

\* The request Slack sends with body b: a fresh timestamp and its signature.
GoodRequest(b) ==
    [path |-> "/slash/jitsi",
     ts |-> <<"1">>, sig |-> SlackSignature(SlackSigningSecret, b, <<"1">>),
     body |-> b, readErr |-> FALSE]

\* The ways in which a request with body b fails to be that one.
BadRequests(b) ==
    LET good == GoodRequest(b)
    IN  { [good EXCEPT !.readErr = TRUE],
          [good EXCEPT !.ts = <<>>],
          [good EXCEPT !.sig = NoSignature],
          [good EXCEPT !.ts = <<"x">>,
                       !.sig = SlackSignature(SlackSigningSecret, b, <<"x">>)],
          [good EXCEPT !.ts = <<"-", "1">>,
                       !.sig = SlackSignature(SlackSigningSecret, b, <<"-", "1">>)],
          [good EXCEPT !.ts = <<"-", "1">>],
          [good EXCEPT !.sig = SlackSignature("hush", b, <<"1">>)],
          [good EXCEPT !.sig = BadSignature] }

\* A request signed 300 s before the service started: it goes stale while
\* the clock runs.
AgedRequest(b) ==
    [path |-> "/slash/jitsi",
     ts |-> <<"0">>, sig |-> SlackSignature(SlackSigningSecret, b, <<"0">>),
     body |-> b, readErr |-> FALSE]

SlashRequests ==
    {GoodRequest(b) : b \in SlashBodies}
        \cup BadRequests(SlashBody(<<"server", " ", "<https://own.example>">>, "T1"))
        \cup BadRequests(SlashBody(<<"<@U2>">>, "T1"))
        \cup {AgedRequest(SlashBody(<<"server", " ", "<https://own.example>">>, "T1"))}

RoomNames == {"BigCatsRunFast"}

\* what a DynamoDB call does: it succeeds, it fails with an error, or (a
\* query) it returns an item whose attribute does not unmarshal
DbOutcomes == {"ok", "error", "unmarshal"}

\* the mentions in the text of a request
Mentions(r) == atMentionRE(PostFormValue(ParseForm(r.body).form, "text"))

\* What the collaborators do during a request: the room name drawn, what
\* DynamoDB does, and what Slack does during each invitation and while the
\* answer to the caller is built.
Quiet == [room |-> "", cfgDb |-> "ok", tokDb |-> "ok", invites |-> <<>>, join |-> NoFailure]

\* Outcomes are drawn for the calls a request gets to make: none after a
\* failed validation, no item that does not unmarshal when the team has no
\* item, no Slack outcome for a help or server command, when the team has no
\* token or when a lookup fails, and none past the invitation that ends the
\* loop.
Consulted(r, e, tokens, servers) ==
    LET team == Word(PostFormValue(ParseForm(r.body).form, "team_id"))
        text == PostFormValue(ParseForm(r.body).form, "text")
        invites == ~helpCmdRE(text) /\ ~serverCmdRE(text) /\ Len(e.invites) > 0
        n == Len(e.invites)
        quietFrom(i) == /\ \A j \in i..n : e.invites[j] = NoFailure
                        /\ e.join = NoFailure
    IN  /\ e.cfgDb = "unmarshal" => Item(servers, team) # ""
        /\ e.tokDb = "error" => (e.cfgDb = "ok" /\ invites)
        /\ (Item(tokens, team) = "" \/ e.cfgDb # "ok" \/ e.tokDb # "ok" \/ ~invites)
               => quietFrom(1)
        /\ \A i \in 1..n : e.invites[i].err \in AuthErrors => quietFrom(i + 1)

Collaborators(r, now, tokens, servers) ==
    IF ~handleRequestValidation(NewWriter, r, SlackSigningSecret, Unix(now)).ok
    THEN {Quiet}
    ELSE {e \in [room : RoomNames, cfgDb : DbOutcomes, tokDb : {"ok", "error"},
                 invites : [1..Len(Mentions(r)) -> InviteOutcomes],
                 join : IF Mentions(r) = <<>> THEN {NoFailure} ELSE JoinOutcomes] :
              Consulted(r, e, tokens, servers)}

\* the goroutines that serve requests at the same time
Procs == {1, 2}

\* the local variables of a goroutine that serves no request
NoLocals ==
    [pc |-> "idle", r |-> <<>>, parts |-> <<>>, mtg |-> NoMeeting, tok |-> "",
     k |-> 1, sent |-> <<>>, w |-> NewWriter]

NoneInFlight == [rng |-> 0, last |-> <<>>, p |-> [p \in Procs |-> NoLocals]]

\* The process when main has registered for os.Interrupt and started the
\* goroutine that will call ListenAndServe: main waits on the channel stop,
\* no signal has come, the server is not shutting down, no request is being
\* served, the shared variable err is nil and the process runs.
Started ==
    [main |-> "wait", serve |-> "go", signalled |-> FALSE, inShutdown |-> FALSE,
     active |-> 0, elapsed |-> 0, err |-> "nil", exited |-> FALSE, code |-> 0]

NoRequestYet ==
    [path |-> "", ts |-> <<>>, sig |-> NoSignature, body |-> <<>>, readErr |-> FALSE]

HttpIdle ==
    /\ tokenStore = [t \in Teams |-> ""]
    /\ serverStore = [t \in Teams |-> ""]
    /\ req = NoRequestYet
    /\ resp = NewWriter
    /\ calls = <<>>
    /\ sent = <<>>
    /\ outcome = Quiet
    /\ conc = NoneInFlight
    /\ process = Started

----------------------------------------------------------------------------
(* The requests ValidRequest is tried on *)

Secrets == {"shh", "hush"}

BodyChars == {"a", ":"}

RECURSIVE SeqsUpTo(_, _)
SeqsUpTo(S, n) ==
    IF n = 0 THEN {<<>>}
    ELSE LET shorter == SeqsUpTo(S, n - 1)
         IN  shorter \cup {Append(s, c) : s \in shorter, c \in S}

Bodies == SeqsUpTo(BodyChars, MaxBodyLen)

\* Timestamp headers: absent, not a number, and around both ends of the
\* freshness window of a clock that reads 300 s or 301 s.
TsHeaders ==
    { <<>>, <<"x">>, <<"-">>, <<"1", "x">>,
      <<"-", "1">>,
      <<"0">>, <<"0", "0">>, <<"+", "0">>, <<"-", "0">>,
      <<"1">>, <<"0", "1">>, <<"+", "1">>,
      <<"6", "0", "0">>, <<"0", "6", "0", "0">>,
      <<"6", "0", "1">>, <<"+", "6", "0", "1">>,
      <<"6", "0", "2">> }

NoRequest == [secret |-> "", body |-> <<>>, ts |-> <<>>, at |-> 0, res |-> "none"]

InitVerify ==
    /\ clock = ClockStart
    /\ vsecret \in Secrets
    /\ vbody \in Bodies
    /\ vts \in TsHeaders
    /\ vsig \in {SlackSignature(vsecret, vbody, vts), NoSignature, BadSignature}
    /\ vres = "pending"
    /\ vat = 0
    /\ vfirst = NoRequest
    /\ TokensIdle
    /\ HttpIdle

Tick ==
    /\ clock < ClockStart + MaxTicks
    /\ clock' = clock + 1
    /\ UNCHANGED <<verifyVars, tokenVars, httpVars>>

\* One call of ValidRequest on the request at hand.
Verify ==
    /\ vres = "pending"
    /\ vat' = Unix(clock)
    /\ vres' = IF ValidRequest(vsecret, vbody, vts, vsig, Unix(clock))
               THEN "accept" ELSE "reject"
    /\ UNCHANGED <<clock, vsecret, vbody, vts, vsig, vfirst>>
    /\ UNCHANGED <<tokenVars, httpVars>>

Verified == [secret |-> vsecret, body |-> vbody, ts |-> vts, at |-> vat, res |-> vres]

\* A second request that carries the same signature and differs from the
\* verified one in its body only.
ResendBody ==
    /\ vres # "pending" /\ vfirst = NoRequest
    /\ \E b \in Bodies \ {vbody} : vbody' = b
    /\ vfirst' = Verified
    /\ vres' = "pending"
    /\ UNCHANGED <<clock, vsecret, vts, vsig, vat>>
    /\ UNCHANGED <<tokenVars, httpVars>>

\* ... in its timestamp header only.
ResendTimestamp ==
    /\ vres # "pending" /\ vfirst = NoRequest
    /\ \E t \in TsHeaders \ {vts} : vts' = t
    /\ vfirst' = Verified
    /\ vres' = "pending"
    /\ UNCHANGED <<clock, vsecret, vbody, vsig, vat>>
    /\ UNCHANGED <<tokenVars, httpVars>>

\* The same request and signature, verified under another signing secret.
ResendSecret ==
    /\ vres # "pending" /\ vfirst = NoRequest
    /\ \E s \in Secrets \ {vsecret} : vsecret' = s
    /\ vfirst' = Verified
    /\ vres' = "pending"
    /\ UNCHANGED <<clock, vbody, vts, vsig, vat>>
    /\ UNCHANGED <<tokenVars, httpVars>>

NextVerify ==
    \/ Tick
    \/ Verify
    \/ ResendBody
    \/ ResendTimestamp
    \/ ResendSecret

SpecVerify == InitVerify /\ [][NextVerify]_vars

----------------------------------------------------------------------------
(* CreateJWT called on a generator: SpecToken *)

VerifierIdle ==
    /\ vsecret = "shh" /\ vbody = <<>> /\ vts = <<>> /\ vsig = NoSignature
    /\ vres = "reject" /\ vat = 0 /\ vfirst = NoRequest

InitToken ==
    /\ clock = ClockStart
    /\ gen \in Generators
    /\ jin = NoInput /\ jat = 0 /\ jout = NoOutput /\ jprev = NoCall
    /\ VerifierIdle
    /\ HttpIdle

\* One call of CreateJWT.
Create ==
    /\ \E in \in JWTInputs :
          /\ jin' = in
          /\ jout' = CreateJWT(gen, in, clock)
    /\ jat' = clock
    /\ jprev' = [in |-> jin, at |-> jat, out |-> jout]
    /\ UNCHANGED <<clock, gen, verifyVars, httpVars>>

NextToken ==
    \/ Tick
    \/ Create

SpecToken == InitToken /\ [][NextToken]_vars

----------------------------------------------------------------------------
(* The service handling requests: Spec *)

\* The state once main has built the handlers: the generator of main with
\* the configured key blob, team T1 installed, no server configured.
Init ==
    /\ clock = ClockStart
    /\ gen \in {g \in Generators : /\ g.Lifetime = Hours24 /\ g.Kid = "kid-1"
                                   /\ g.PrivateKey.name \in {"key-A", "key-D"}}
    /\ jin = NoInput /\ jat = 0 /\ jout = NoOutput /\ jprev = NoCall
    /\ VerifierIdle
    /\ tokenStore = [t \in Teams |-> IF t = "T1" THEN "xoxb-T1" ELSE ""]
    /\ serverStore = [t \in Teams |-> ""]
    /\ req = NoRequestYet
    /\ resp = NewWriter
    /\ calls = <<>>
    /\ sent = <<>>
    /\ outcome = Quiet
    /\ conc = NoneInFlight
    /\ process = Started

\* Request r to /slash/jitsi, handled from start to end.
JitsiRequest(r) ==
    \E e \in Collaborators(r, clock, tokenStore, serverStore) :
    \E out \in {JitsiHandler(r, e, tokenStore, serverStore, gen, clock)} :
        /\ req' = r
        /\ resp' = IF out.w.panicked THEN out.w ELSE Finish(out.w)
        /\ calls' = out.calls
        /\ sent' = out.sent
        /\ outcome' = e
        /\ serverStore' = out.servers
        /\ UNCHANGED <<clock, tokenStore, conc, process, verifyVars, tokenVars>>

\* One request to /slash/jitsi.
Jitsi == \E r \in SlashRequests : JitsiRequest(r)

Next ==
    \/ Tick
    \/ Jitsi

Spec == Init /\ [][Next]_vars

----------------------------------------------------------------------------
(* Two teams configuring their servers and starting meetings: SpecServer *)

ServerTexts ==
    { <<"server">>, <<"server", " ", "default">>,
      <<"server", " ", "<https://own.example>">>,
      <<"server", " ", "<https://two.example>">>,
      <<"server", " ", "<https://meet.jit.si>">>,
      <<"server", " ", "own.example">> }

\* the server commands of both teams, and one that is not signed by Slack
ServerRequests ==
    {GoodRequest(SlashBody(t, team)) : t \in ServerTexts, team \in Teams}
        \cup {[GoodRequest(SlashBody(<<"server", " ", "<https://two.example>">>, "T1"))
                  EXCEPT !.sig = BadSignature]}

\* the commands of both teams that start a meeting
MeetingRequests ==
    {GoodRequest(SlashBody(t, team)) : t \in {<<>>, <<"<@U2>">>}, team \in Teams}

InitServer ==
    /\ Init
    /\ gen.PrivateKey.name = "key-A"

\* One `server` command to /slash/jitsi.
Configure ==
    \E r \in ServerRequests :
        /\ serverCmdRE(PostFormValue(ParseForm(r.body).form, "text"))
        /\ JitsiRequest(r)

\* One command to /slash/jitsi that starts a meeting.
Meet ==
    \E r \in MeetingRequests :
        /\ ~serverCmdRE(PostFormValue(ParseForm(r.body).form, "text"))
        /\ JitsiRequest(r)

NextServer ==
    \/ Configure
    \/ Meet

SpecServer == InitServer /\ [][NextServer]_vars

----------------------------------------------------------------------------
(* A team inviting one and two users, with Slack failing in every way:      *)
(* SpecInvite                                                               *)

\* commands of T1 that mention one user and two users, and one of T2, which
\* has no token
InviteRequests ==
    { GoodRequest(SlashBody(<<"<@U2>">>, "T1")),
      GoodRequest(SlashBody(<<"<@U2>", " ", "<@U3|bob>">>, "T1")),
      GoodRequest(SlashBody(<<"<@U2>">>, "T2")) }

\* T1 on the default host or on its own server, with a key that signs or
\* one that does not
InitInvite ==
    /\ clock = ClockStart
    /\ gen \in {g \in Generators : /\ g.Lifetime = Hours24 /\ g.Kid = "kid-1"
                                   /\ g.PrivateKey.name \in {"key-A", "key-D"}}
    /\ jin = NoInput /\ jat = 0 /\ jout = NoOutput /\ jprev = NoCall
    /\ VerifierIdle
    /\ tokenStore = [t \in Teams |-> IF t = "T1" THEN "xoxb-T1" ELSE ""]
    /\ serverStore \in {[t \in Teams |-> IF t = "T1" THEN srv ELSE ""] :
                           srv \in {"", "https://own.example"}}
    /\ req = NoRequestYet /\ resp = NewWriter /\ calls = <<>> /\ sent = <<>>
    /\ outcome = Quiet
    /\ conc = NoneInFlight
    /\ process = Started

\* One command with mentions to /slash/jitsi.
Mention ==
    \E r \in InviteRequests :
        /\ Mentions(r) # <<>>
        /\ JitsiRequest(r)

NextInvite == Mention

SpecInvite == InitInvite /\ [][NextInvite]_vars

----------------------------------------------------------------------------
(* The event and OAuth handlers, and teams installing and removing the app: *)
(* SpecInstall                                                              *)

BadRequest == 400
Found == 302

\* TokenStore.Store
TokenStoreStore(table, data, db) ==
    IF db = "error" THEN [err |-> "dynamodb", table |-> table]
    ELSE [err |-> "", table |-> [t \in DOMAIN table \cup {data.TeamID} |->
                                    IF t = data.TeamID THEN data.AccessToken ELSE table[t]]]

\* A removal that deletes nothing.
TokenStoreRemove_Nothing(table, teamID, db) ==
    IF db = "error" THEN [err |-> "dynamodb", table |-> table]
    ELSE [err |-> "", table |-> table]

\* TokenStore.Remove
TokenStoreRemove(table, teamID, db) ==
    IF db = "error" THEN [err |-> "dynamodb", table |-> table]
    ELSE [err |-> "", table |-> [t \in DOMAIN table |-> IF t = teamID THEN "" ELSE table[t]]]

\* A verifier that lets every request pass.
SecretsVerifier_Anyone(r, secret, now) == ""

\* slack.NewSecretsVerifier, sv.Write and sv.Ensure on the headers and the
\* body: "headers" when a header is missing, the timestamp is no number or is
\* more than five minutes away from now (in clock units), "signature" when
\* the signature is not that of the body, "" when the request is Slack's.
SecretsVerifier(r, secret, now) ==
    LET ts == ParseInt(r.ts)
    IN  IF r.ts = <<>> \/ r.sig = NoSignature THEN "headers"
        ELSE IF ts.err THEN "headers"
        ELSE IF Abs(now - ts.val * SubSec) > FreshnessWindow * SubSec THEN "headers"
        ELSE IF MySignature(secret, SigBaseString(r.ts, r.body)) # r.sig THEN "signature"
        ELSE ""

\* slackevents.ParseEvent on the body: the type of the event, the type of
\* the inner event and the team id. The body is a sequence of words.
ParseEvent(body) ==
    IF body = <<>> \/ Head(body) \notin {"url_verification", "event_callback"}
    THEN [err |-> TRUE, Type |-> "", Inner |-> "", TeamID |-> ""]
    ELSE [err |-> FALSE, Type |-> body[1],
          Inner |-> IF Len(body) >= 2 THEN body[2] ELSE "",
          TeamID |-> IF Len(body) >= 3 THEN body[3] ELSE ""]

\* EventHandler.Handle: the response, the calls made and the token table
\* afterwards. db is what DynamoDB does when asked to delete.
EventHandle(r, tokens, db, now) ==
    LET w == NewWriter
        removed(rm) ==
            [w |-> WriteHeader(w, OK), calls |-> <<"ParseEvent", "TokenWriter.Remove">>,
             tokens |-> rm.table]
        handle(ev) ==
            IF ev.err
            THEN [w |-> WriteHeader(w, InternalServerError), calls |-> <<"ParseEvent">>,
                  tokens |-> tokens]
            ELSE IF ev.Type = "url_verification"
            THEN [w |-> WriteHeader(Write(WriteHeader(w, OK),
                                          Msg("challenge", ev.Inner, NoURL)), OK),
                  calls |-> <<"ParseEvent">>, tokens |-> tokens]
            ELSE IF ev.Inner = "app_uninstalled"
            THEN removed(TokenStoreRemove(tokens, ev.TeamID, db))
            ELSE [w |-> WriteHeader(w, OK), calls |-> <<"ParseEvent">>, tokens |-> tokens]
        verified(v) ==
            IF v = "headers"
            THEN [w |-> WriteHeader(w, BadRequest), calls |-> <<>>, tokens |-> tokens]
            ELSE IF v = "signature"
            THEN [w |-> WriteHeader(w, Unauthorized), calls |-> <<>>, tokens |-> tokens]
            ELSE handle(ParseEvent(r.body))
    IN  IF r.readErr
        THEN [w |-> WriteHeader(w, BadRequest), calls |-> <<>>, tokens |-> tokens]
        ELSE verified(SecretsVerifier(r, SlackSigningSecret, now))

\* The events Slack posts, signed, and requests that are not Slack's.
EventBodies ==
    { <<"event_callback", "app_uninstalled", "T1">>,
      <<"event_callback", "app_uninstalled", "T2">>,
      <<"event_callback", "app_mention", "T1">>,
      <<"url_verification", "challenge-1">>,
      <<"{">> }

EventRequest(b) == [GoodRequest(b) EXCEPT !.path = "/slack/event"]

\* the requests to /slack/event: Slack's, one signed under another secret,
\* one without signature, one whose timestamp is too old, one that cannot be
\* read
EventRequests ==
    LET uninstall == EventRequest(<<"event_callback", "app_uninstalled", "T1">>)
    IN  {EventRequest(b) : b \in EventBodies}
            \cup { [uninstall EXCEPT !.sig = SlackSignature("hush", uninstall.body, <<"1">>)],
                   [uninstall EXCEPT !.sig = NoSignature],
                   [uninstall EXCEPT !.ts = <<"-", "1">>,
                                     !.sig = SlackSignature(SlackSigningSecret,
                                                            uninstall.body, <<"-", "1">>)],
                   [uninstall EXCEPT !.readErr = TRUE] }

\* What slack.GetOAuthV2Response returns for the code of an install.
OAuthResponses ==
    { [err |-> "", TeamID |-> "T1", AccessToken |-> "xoxb-T1-new"],
      [err |-> "", TeamID |-> "T2", AccessToken |-> "xoxb-T2"],
      [err |-> "invalid_code", TeamID |-> "", AccessToken |-> ""] }

\* no exchange was made
NoExchange == [err |-> "", TeamID |-> "", AccessToken |-> ""]

\* the query of a request to /slack/auth: its error parameter and the number
\* of code parameters
AuthQueries ==
    { [error |-> "", codes |-> 1], [error |-> "", codes |-> 0],
      [error |-> "", codes |-> 2],
      [error |-> "access_denied", codes |-> 0], [error |-> "access_denied", codes |-> 1],
      [error |-> "server_error", codes |-> 0] }

\* A callback that stores and redirects whatever happened.
AuthHandle_Unchecked(q, tokens, o, db) ==
    [w |-> WriteHeader(NewWriter, Found),
     calls |-> <<"slack.GetOAuthV2Response", "TokenWriter.Store">>,
     tokens |-> [t \in DOMAIN tokens \cup {o.TeamID} |->
                    IF t = o.TeamID THEN o.AccessToken ELSE tokens[t]]]

\* SlackOAuthHandlers.Auth: the response, the calls made and the token table
\* afterwards. o is what Slack answers to the exchange of the code, db what
\* DynamoDB does when asked to put the item.
AuthHandle(q, tokens, o, db) ==
    LET w == NewWriter
        stored(st) ==
            [w |-> IF st.err # "" THEN WriteHeader(w, InternalServerError)
                   ELSE WriteHeader(w, Found),
             calls |-> <<"slack.GetOAuthV2Response", "TokenWriter.Store">>,
             tokens |-> st.table]
    IN  IF q.error = "access_denied"
        THEN [w |-> WriteHeader(w, OK), calls |-> <<>>, tokens |-> tokens]
        ELSE IF q.error # ""
        THEN [w |-> WriteHeader(w, InternalServerError), calls |-> <<>>, tokens |-> tokens]
        ELSE IF q.codes # 1
        THEN [w |-> WriteHeader(w, InternalServerError), calls |-> <<>>, tokens |-> tokens]
        ELSE IF o.err # ""
        THEN [w |-> WriteHeader(w, InternalServerError),
              calls |-> <<"slack.GetOAuthV2Response">>, tokens |-> tokens]
        ELSE stored(TokenStoreStore(tokens, [TeamID |-> o.TeamID,
                                             AccessToken |-> o.AccessToken], db))

\* the request to /slack/auth with query q, as the state keeps it
AuthRequest(q) ==
    [NoRequestYet EXCEPT !.path = "/slack/auth",
                         !.body = <<"error", "=", q.error, "&", "codes", "=",
                                    DigitChars[q.codes + 1]>>]

\* the commands with a mention, of both teams
InstallCommands == {GoodRequest(SlashBody(<<"<@U2>">>, team)) : team \in Teams}

InitInstall ==
    /\ Init
    /\ gen.PrivateKey.name = "key-A"

\* One request to /slack/event.
Event ==
    \E r \in EventRequests : \E db \in {"ok", "error"} :
    \E out \in {EventHandle(r, tokenStore, db, clock)} :
        /\ req' = r
        /\ resp' = Finish(out.w)
        /\ calls' = out.calls
        /\ sent' = <<>>
        /\ outcome' = [Quiet EXCEPT !.tokDb = db]
        /\ tokenStore' = out.tokens
        /\ UNCHANGED <<clock, serverStore, conc, process, verifyVars, tokenVars>>

\* the outcome of a callback: what Slack answered to the exchange of the
\* code and what DynamoDB did, for the calls that were made
AuthOutcome(o, db, cs) ==
    [room |-> "", cfgDb |-> "ok", invites |-> <<>>, join |-> NoFailure,
     tokDb |-> IF Len(cs) >= 2 THEN db ELSE "ok",
     oauth |-> IF Len(cs) >= 1 THEN o ELSE NoExchange]

\* One request to /slack/auth.
Auth ==
    \E q \in AuthQueries : \E o \in OAuthResponses : \E db \in {"ok", "error"} :
    \E out \in {AuthHandle(q, tokenStore, o, db)} :
        /\ req' = AuthRequest(q)
        /\ resp' = Finish(out.w)
        /\ calls' = out.calls
        /\ sent' = <<>>
        /\ outcome' = AuthOutcome(o, db, out.calls)
        /\ tokenStore' = out.tokens
        /\ UNCHANGED <<clock, serverStore, conc, process, verifyVars, tokenVars>>

\* One command with a mention to /slash/jitsi.
Invite ==
    \E r \in InstallCommands :
        /\ Mentions(r) # <<>>
        /\ JitsiRequest(r)

NextInstall ==
    \/ Event
    \/ Auth
    \/ Invite

SpecInstall == InitInstall /\ [][NextInstall]_vars

----------------------------------------------------------------------------
(* Two requests to /slash/jitsi served at the same time: SpecConc. Each     *)
(* goroutine runs the handler on its own request with its own locals; the   *)
(* steps are the places where it touches what the goroutines share: the     *)
(* source of math/rand and the two tables.                                  *)

\* the number of words in each list RandomName draws from
WordCount == 3

\* the number of requests the server is given to serve at the same time
MaxActive == 2

\* rand.Intn(n) on the shared source in state rng (the source is locked
\* during the call)
Intn(rng, n) == rng % n

\* the form-encoded body of a command of a user of a team
CommandBody(text, teamID, teamName, userID) ==
    <<"text", "=">> \o Escape(text)
        \o <<"&", "team_id", "=", teamID, "&", "team_domain", "=", teamName,
             "&", "user_id", "=", userID>>

\* commands of two users of two teams, and a request that is not Slack's
ConcRequests ==
    { GoodRequest(CommandBody(<<"<@U2>">>, "T1", "Acme", "U1")),
      GoodRequest(CommandBody(<<"<@U3|bob>">>, "T2", "beta", "U4")),
      GoodRequest(CommandBody(<<"hi">>, "T2", "beta", "U4")),
      [GoodRequest(CommandBody(<<"<@U2>">>, "T1", "Acme", "U1"))
          EXCEPT !.sig = BadSignature] }

\* A room name kept in a variable of the package: the meeting of a request
\* gets the name drawn last by any request.
RoomNameOf_Shared(c, p) == c.last

\* mtg.RoomName: the local variable of the call of New made for p
RoomNameOf(c, p) == c.p[p].parts

\* the locals of p replaced by l
WithLocals(c, p, l) == [c EXCEPT !.p[p] = l]

InitConc ==
    /\ clock = ClockStart
    /\ gen \in {g \in Generators : /\ g.Lifetime = Hours24 /\ g.Kid = "kid-1"
                                   /\ g.PrivateKey.name = "key-A"}
    /\ jin = NoInput /\ jat = 0 /\ jout = NoOutput /\ jprev = NoCall
    /\ VerifierIdle
    /\ tokenStore = [t \in Teams |-> IF t = "T1" THEN "xoxb-T1" ELSE "xoxb-T2"]
    /\ serverStore = [t \in Teams |-> IF t = "T2" THEN "https://own.example" ELSE ""]
    /\ req = NoRequestYet /\ resp = NewWriter /\ calls = <<>> /\ sent = <<>>
    /\ outcome = Quiet
    /\ conc \in {[NoneInFlight EXCEPT !.rng = seed] : seed \in 0..(WordCount - 1)}
    /\ process = Started

ConcUnchanged ==
    UNCHANGED <<clock, tokenStore, serverStore, req, resp, calls, sent, outcome,
                process, verifyVars, tokenVars>>

\* Jitsi up to the call of dispatchInvites: the request is validated and its
\* form decoded.
Begin(p) ==
    /\ conc.p[p].pc = "idle"
    /\ \E r \in ConcRequests :
       \E v \in {handleRequestValidation(NewWriter, r, SlackSigningSecret, Unix(clock))} :
          conc' = WithLocals(conc, p,
                      IF v.ok THEN [NoLocals EXCEPT !.pc = "draw", !.r = r]
                      ELSE [NoLocals EXCEPT !.pc = "done", !.r = r, !.w = Finish(v.w)])
    /\ ConcUnchanged

\* One of the four rand.Intn calls of RandomName.
Draw(p) ==
    /\ conc.p[p].pc = "draw"
    /\ \E parts \in {Append(conc.p[p].parts, Intn(conc.rng, WordCount))} :
          conc' = [conc EXCEPT !.rng = (@ + 1) % WordCount,
                               !.last = IF Len(parts) = 4 THEN parts ELSE @,
                               !.p[p].parts = parts,
                               !.p[p].pc = IF Len(parts) = 4 THEN "lookup" ELSE "draw"]
    /\ ConcUnchanged

\* The rest of MeetingGenerator.New: the server of the team is read and the
\* meeting built; without mention the room message is the answer.
Lookup(p) ==
    /\ conc.p[p].pc = "lookup"
    /\ \E form \in {ParseForm(conc.p[p].r.body).form} :
       \E m \in {MeetingNew(Word(PostFormValue(form, "team_id")),
                             Word(PostFormValue(form, "team_domain")),
                             RoomNameOf(conc, p), serverStore, "ok").mtg} :
          conc' = IF atMentionRE(PostFormValue(form, "text")) = <<>>
                  THEN [conc EXCEPT
                           !.p[p].mtg = m, !.p[p].pc = "done",
                           !.p[p].w = Finish(Write(WriteHeader(
                                          SetContentType(NewWriter, "application/json"), OK),
                                          Msg("room", m.Host,
                                              [path |-> m.URL, auth |-> FALSE, jwt |-> ""])))]
                  ELSE [conc EXCEPT !.p[p].mtg = m, !.p[p].pc = "token"]
    /\ ConcUnchanged

\* TokenReader.GetTokenForTeam
Token(p) ==
    /\ conc.p[p].pc = "token"
    /\ \E form \in {ParseForm(conc.p[p].r.body).form} :
       \E tok \in {GetTokenForTeam(tokenStore, Word(PostFormValue(form, "team_id")), "ok")} :
          conc' = IF tok.err # ""
                  THEN [conc EXCEPT !.p[p].pc = "done",
                                    !.p[p].w = Finish(install(NewWriter, SharableURL))]
                  ELSE [conc EXCEPT !.p[p].tok = tok.token, !.p[p].pc = "invite"]
    /\ ConcUnchanged

\* One turn of the loop over the mentions.
SendInvite(p) ==
    /\ conc.p[p].pc = "invite"
    /\ \E l \in {conc.p[p]} :
       \E form \in {ParseForm(l.r.body).form} :
       \E ids \in {atMentionRE(PostFormValue(form, "text"))} :
       \E res \in {sendPersonalizedInvite(l.tok, Word(PostFormValue(form, "user_id")),
                                          ids[l.k], l.mtg, NoFailure, gen, clock)} :
          conc' = [conc EXCEPT !.p[p].sent = @ \o res.sent,
                               !.p[p].k = @ + 1,
                               !.p[p].pc = IF l.k = Len(ids) THEN "join" ELSE "invite"]
    /\ ConcUnchanged

\* joinPersonalMeetingMsg and the answer to the caller.
Join(p) ==
    /\ conc.p[p].pc = "join"
    /\ \E l \in {conc.p[p]} :
       \E form \in {ParseForm(l.r.body).form} :
       \E j \in {joinPersonalMeetingMsg(l.tok, Word(PostFormValue(form, "user_id")),
                                        l.mtg, NoFailure, gen, clock)} :
          conc' = [conc EXCEPT
                      !.p[p].pc = "done",
                      !.p[p].w = Finish(Write(WriteHeader(
                                     SetContentType(NewWriter, "application/json"), OK),
                                     j.resp))]
    /\ ConcUnchanged

NextConc ==
    \E p \in Procs :
        \/ Begin(p)
        \/ Draw(p)
        \/ Lookup(p)
        \/ Token(p)
        \/ SendInvite(p)
        \/ Join(p)

SpecConc == InitConc /\ [][NextConc]_vars

----------------------------------------------------------------------------
(* main, the goroutine that serves and the requests in flight, around an    *)
(* interrupt: SpecShutdown                                                  *)

\* the seconds main gives srv.Shutdown
ShutdownTimeout == 20

InitShutdown == InitServer

ShutdownUnchanged ==
    UNCHANGED <<clock, tokenStore, serverStore, req, resp, calls, sent, outcome,
                conc, verifyVars, tokenVars>>

\* The goroutine calls srv.ListenAndServe, which returns ErrServerClosed at
\* once when the server is already shutting down.
Listen ==
    /\ ~process.exited /\ process.serve = "go"
    /\ process' = IF process.inShutdown
                  THEN [process EXCEPT !.serve = "closed", !.err = "ErrServerClosed"]
                  ELSE [process EXCEPT !.serve = "serving"]
    /\ ShutdownUnchanged

\* The server accepts a connection and starts to serve a request.
Accept ==
    /\ ~process.exited /\ process.serve = "serving" /\ ~process.inShutdown
    /\ process.active < MaxActive
    /\ process' = [process EXCEPT !.active = @ + 1]
    /\ ShutdownUnchanged

\* A handler returns and its connection becomes idle.
Respond ==
    /\ ~process.exited /\ process.active > 0
    /\ process' = [process EXCEPT !.active = @ - 1]
    /\ ShutdownUnchanged

\* The process is sent an interrupt, which signal.Notify puts on stop.
Interrupt ==
    /\ ~process.exited /\ ~process.signalled
    /\ process' = [process EXCEPT !.signalled = TRUE]
    /\ ShutdownUnchanged

\* main receives from stop, makes the context and calls srv.Shutdown, which
\* marks the server as shutting down and closes the listener.
Shutdown ==
    /\ ~process.exited /\ process.main = "wait" /\ process.signalled
    /\ process' = [process EXCEPT !.main = "shutdown", !.inShutdown = TRUE]
    /\ ShutdownUnchanged

\* ListenAndServe returns ErrServerClosed once Shutdown has been called; the
\* goroutine assigns it to err.
ServeReturns ==
    /\ ~process.exited /\ process.serve = "serving" /\ process.inShutdown
    /\ process' = [process EXCEPT !.serve = "closed", !.err = "ErrServerClosed"]
    /\ ShutdownUnchanged

\* log.Fatal in the goroutine: the message is written and os.Exit(1) called.
Fatal ==
    /\ ~process.exited /\ process.serve = "closed"
    /\ process' = [process EXCEPT !.serve = "fatal", !.exited = TRUE, !.code = 1]
    /\ ShutdownUnchanged

\* A second passes while Shutdown waits.
Second ==
    /\ ~process.exited /\ process.main = "shutdown"
    /\ process.elapsed < ShutdownTimeout
    /\ process' = [process EXCEPT !.elapsed = @ + 1]
    /\ ShutdownUnchanged

\* srv.Shutdown returns: nil when no request is being served, the error of
\* the context when its 20 seconds are over. main assigns the result to err.
ShutdownReturns ==
    /\ ~process.exited /\ process.main = "shutdown"
    /\ process.active = 0 \/ process.elapsed = ShutdownTimeout
    /\ process' = [process EXCEPT
                      !.main = "returned",
                      !.err = IF process.active = 0 THEN "nil" ELSE "DeadlineExceeded"]
    /\ ShutdownUnchanged

\* main reads err: log.Fatal when it is not nil, the end of main otherwise.
MainExit ==
    /\ ~process.exited /\ process.main = "returned"
    /\ process' = [process EXCEPT !.main = "exit", !.exited = TRUE,
                                  !.code = IF process.err = "nil" THEN 0 ELSE 1]
    /\ ShutdownUnchanged

NextShutdown ==
    \/ Listen
    \/ Accept
    \/ Respond
    \/ Interrupt
    \/ Shutdown
    \/ ServeReturns
    \/ Fatal
    \/ Second
    \/ ShutdownReturns
    \/ MainExit

SpecShutdown == InitShutdown /\ [][NextShutdown]_vars

----------------------------------------------------------------------------
(* Claims about ValidRequest, under SpecVerify *)


TsValue == ParseInt(vts).val

Signed == ~ParseInt(vts).err /\ vsig = SlackSignature(vsecret, vbody, vts)

\* C1: round trip. A request whose timestamp header T lies within 300 s of
\* the current time and whose signature is "v0=" followed by the hex
\* HMAC-SHA256, keyed with the secret, of "v0:T:B" is accepted.
C1_RoundTrip ==
    (vres # "pending" /\ Signed /\ Abs(vat - TsValue) <= 300) => vres = "accept"

C1_Witness ==
    /\ vres = "accept" /\ vfirst = NoRequest
    /\ vbody # <<>> /\ vts = <<"+", "1">> /\ vat = 300

C3_TamperSensitive ==
    (vfirst.res = "accept" /\ vres # "pending") => vres = "reject"

C3_Witness ==
    /\ vfirst.res = "accept" /\ vres = "reject"
    /\ vsecret # vfirst.secret /\ Abs(vat - TsValue) < 300

\* Two verified requests with the same secret, body, signature and current
\* time whose timestamp headers denote the same integer.
SameSeconds ==
    /\ vfirst # NoRequest /\ vres # "pending"
    /\ vsecret = vfirst.secret /\ vbody = vfirst.body /\ vat = vfirst.at
    /\ ~ParseInt(vts).err /\ ~ParseInt(vfirst.ts).err
    /\ ParseInt(vts).val = ParseInt(vfirst.ts).val

\* C5 as stated: two requests whose timestamp headers denote the same
\* integer number of seconds receive the same result.
C5_SameSecondsSameResult == SameSeconds => vres = vfirst.res

\* C5 as amended: the expected signature is a function of the timestamp
\* header as text. A request is accepted only if its signature was computed
\* over the header text exactly as received, so of two headers that denote
\* the same integer and differ in text at most one is accepted.
C5_HeaderTextIsSigned ==
    /\ vres = "accept" => vsig.mac.msg = <<"v", "0", ":">> \o vts \o <<":">> \o vbody
    /\ SameSeconds => ~(vres = "accept" /\ vfirst.res = "accept")

C5_Witness ==
    SameSeconds /\ vfirst.res = "accept" /\ vres = "reject" /\ vts = <<"0", "0">>

----------------------------------------------------------------------------
(* Claims about CreateJWT, under SpecToken *)

\* the latest call returned a token
Returned == jout.err = ""

Payload == jout.token.payload

C7_PayloadFields ==
    Returned =>
        /\ DOMAIN Payload = {"iss", "nbf", "exp", "sub", "aud", "room", "context"}
        /\ DOMAIN Payload.context = {"user", "group"}
        /\ DOMAIN Payload.context.user = {"id", "name", "avatar"}

C7_Witness ==
    Returned /\ jin.TenantName = "" /\ jin.UserName = "" /\ jin.AvatarURL = ""

\* C8: iss and aud come from the configuration, nbf is the current time, sub
\* and context.group are TenantName, room is RoomClaim, context.user is
\* UserID, UserName and AvatarURL; TenantID changes nothing in the token.
C8_ClaimValues ==
    Returned =>
        /\ Payload.iss = gen.Issuer
        /\ Payload.aud = gen.Audience
        /\ Payload.nbf = Unix(jat)
        /\ Payload.sub = jin.TenantName
        /\ Payload.context.group = jin.TenantName
        /\ Payload.room = jin.RoomClaim
        /\ Payload.context.user.id = jin.UserID
        /\ Payload.context.user.name = jin.UserName
        /\ Payload.context.user.avatar = jin.AvatarURL
        /\ \A tid \in {"T1", "T2"} :
               CreateJWT(gen, [jin EXCEPT !.TenantID = tid], jat) = jout

C8_Witness ==
    /\ Returned /\ jprev.out.err = ""
    /\ jin.TenantName = "acme" /\ jin.UserName = "Alice"
    /\ jprev.in.TenantID # jin.TenantID
    /\ jprev.in = [jin EXCEPT !.TenantID = jprev.in.TenantID]
    /\ jprev.at = jat /\ jprev.out = jout

\* the latest two calls had the same input and both returned a token
SameInputTwice == Returned /\ jprev.out.err = "" /\ jprev.in = jin

SameRoomSubContext ==
    /\ jprev.out.token.payload.room = Payload.room
    /\ jprev.out.token.payload.sub = Payload.sub
    /\ jprev.out.token.payload.context = Payload.context

\* C9 as stated: two calls with the same input and configuration at
\* different values of now give different nbf and different exp, and the
\* same room, sub and context.
C9_DifferentNowDifferentNbf ==
    (SameInputTwice /\ jprev.at # jat) =>
        /\ jprev.out.token.payload.nbf # Payload.nbf
        /\ jprev.out.token.payload.exp # Payload.exp
        /\ SameRoomSubContext

\* C9 as amended: two calls with the same input and configuration at values
\* of now at least one second apart give different nbf and different exp,
\* and the same room, sub and context.
C9_SecondApartDifferentNbf ==
    (SameInputTwice /\ jat - jprev.at >= SubSec) =>
        /\ jprev.out.token.payload.nbf # Payload.nbf
        /\ jprev.out.token.payload.exp # Payload.exp
        /\ SameRoomSubContext

C9_Witness ==
    /\ SameInputTwice /\ jat - jprev.at = SubSec
    /\ jprev.out.token.payload.nbf + 1 = Payload.nbf
    /\ jin.UserName = "Alice"

\* C10: a token returned without error has alg RS256 and the configured Kid
\* in its header; the kid is no value of the input or of the key blob.
C10_HeaderAlgAndKid ==
    Returned =>
        /\ jout.token.header.alg = "RS256"
        /\ jout.token.header.kid = gen.Kid
        /\ jout.token.header.kid # gen.PrivateKey.name
        /\ \A f \in DOMAIN jin : jout.token.header.kid # jin[f]

C10_Witness ==
    Returned /\ gen.Kid = "kid-2" /\ jout.token.header.kid = "kid-2"

----------------------------------------------------------------------------
(* Claims about the /jitsi handler, checked under Spec *)

\* The request at hand fails verification at the current clock: a header is
\* missing, or the body was read and ValidRequest refuses it.
VerificationFails ==
    \/ req.ts = <<>>
    \/ req.sig = NoSignature
    \/ /\ ~req.readErr
       /\ ~ValidRequest(SlackSigningSecret, req.body, req.ts, req.sig, Unix(clock))

\* C4: a request that fails verification (a missing timestamp or signature
\* header, an unparsable or stale timestamp, a mismatching signature) is
\* answered with 401 and no body, without a panic, and none of the command
\* logic runs for it: no form parsing, no store access, no Slack call, no
\* token minted, no message posted, the server table left as it was.
C4_VerificationFailureIs401 ==
    [][ (clock' = clock /\ VerificationFails') =>
            /\ resp'.status = Unauthorized
            /\ resp'.body = <<>>
            /\ ~resp'.panicked
            /\ calls' = <<>>
            /\ sent' = <<>>
            /\ serverStore' = serverStore ]_vars

\* The aged request was accepted and configured a server; handled again one
\* second later it is stale and refused, and the configuration stands.
C4_Witness ==
    /\ req.ts = <<"0">> /\ ~req.readErr
    /\ ~ValidRequest(SlackSigningSecret, req.body, req.ts, req.sig, Unix(clock))
    /\ resp.status = Unauthorized /\ calls = <<>>
    /\ serverStore["T1"] = "https://own.example"

----------------------------------------------------------------------------
(* Claims about the signing key, checked under SpecToken *)

\* the calls made so far that decoded the key blob
KeyDecodes ==
    SelectSeq(jprev.out.loads \o jout.loads, LAMBDA c : c = "dataurl.DecodeString")

\* C11: the key blob is decoded and parsed at most once per process; a later
\* call of CreateJWT reuses the key and does not decode the blob again.
C11_KeyLoadedOnce ==
    /\ Len(KeyDecodes) <= 1
    /\ jprev.out # NoOutput => jout.loads = <<>>

\* C13: with a well-formed data URL that holds an RSA private key in PKCS1
\* or in PKCS8 DER encoding, CreateJWT returns a signed token.
C13_Pkcs1AndPkcs8Accepted ==
    (/\ jout # NoOutput
     /\ gen.PrivateKey.dataurl
     /\ gen.PrivateKey.der \in {"pkcs1-rsa", "pkcs8-rsa"}) => Returned

----------------------------------------------------------------------------
(* Claims about the signing key in the service, checked under Spec *)

\* a key blob that cannot be decoded, or whose payload is no key at all
Malformed(blob) == ~blob.dataurl \/ blob.der = "garbage"

\* C12: with a key blob that cannot be decoded or parsed the service never
\* gets to accept a request: no request is ever handled.
C12_MalformedKeyNeverServes ==
    Malformed(gen.PrivateKey) => (req = NoRequestYet /\ resp = NewWriter)

\* CreateJWT was called while the request at hand was handled, and failed.
CreateJWTFailed ==
    /\ \E i \in 1..Len(calls) : calls[i] = "CreateJWT"
    /\ CreateJWT(gen, NoInput, clock).err # ""

\* C14: when CreateJWT fails while an @-mention command is handled, the
\* user is shown a failure: the answer is no 200, whether with a join message
\* or with an empty body, and no message carries a URL with an empty token.
C14_TokenFailureIsShown ==
    CreateJWTFailed =>
        /\ resp.status # OK
        /\ \A i \in 1..Len(sent) : sent[i].url.auth => sent[i].url.jwt # ""

----------------------------------------------------------------------------
(* Claims about the commands, checked under Spec *)

\* a field of the form that a body decodes to
FieldOf(body, name) == PostFormValue(ParseForm(body).form, name)

\* C15: the handler decodes the form only after ValidRequest has accepted
\* the body as received, and the fields it uses (text, team_id, team_domain,
\* user_id) are those of that body: the command is chosen by its text, a
\* server command writes under its team_id only, the meeting URL carries its
\* team_domain, and every invitation is sent in the name of its user_id to a
\* user mentioned in its text.
C15_FieldsFromVerifiedBody ==
    [][ (clock' = clock /\ calls' # <<>>) =>
            /\ ValidRequest(SlackSigningSecret, req'.body, req'.ts, req'.sig, Unix(clock))
            /\ Head(calls') = "ParseForm"
            /\ helpCmdRE(FieldOf(req'.body, "text")) =>
                   resp'.body = <<Msg("help", "", NoURL)>>
            /\ \A t \in Teams : t # Word(FieldOf(req'.body, "team_id")) =>
                   serverStore'[t] = serverStore[t]
            /\ \A i \in 1..Len(resp'.body) :
                   (resp'.body[i].msg = "room" /\ resp'.body[i].host = DefaultServer) =>
                       resp'.body[i].url.path[3] = ToLower(Word(FieldOf(req'.body, "team_domain")))
            /\ \A i \in 1..Len(sent') :
                   /\ sent'[i].from = Word(FieldOf(req'.body, "user_id"))
                   /\ \E j \in 1..Len(FieldOf(req'.body, "text")) :
                          sent'[i].to = MentionID(FieldOf(req'.body, "text")[j]) ]_vars

C15_Witness ==
    /\ Len(sent) = 1 /\ sent[1].from = "U1" /\ sent[1].to = "U2"
    /\ Head(calls) = "ParseForm" /\ resp.status = OK

\* a body that decodes to a command that is no help command, no server
\* command, and mentions nobody
NoMentionCommand(body) ==
    /\ ~ParseForm(body).err
    /\ ~helpCmdRE(FieldOf(body, "text"))
    /\ ~serverCmdRE(FieldOf(body, "text"))
    /\ atMentionRE(FieldOf(body, "text")) = <<>>

\* w is 200 with the in_channel message that carries the plain URL of a
\* meeting on the host stored for the team of the body, or on the default
RoomAnswer(w, body, servers) ==
    /\ ~w.panicked /\ w.status = OK /\ w.ctype = "application/json"
    /\ Len(w.body) = 1
    /\ w.body[1].msg = "room"
    /\ w.body[1].host = (IF Item(servers, Word(FieldOf(body, "team_id"))) = ""
                         THEN DefaultServer
                         ELSE Item(servers, Word(FieldOf(body, "team_id"))))
    /\ ~w.body[1].url.auth /\ w.body[1].url.jwt = ""
    /\ Head(w.body[1].url.path) = w.body[1].host
    /\ w.body[1].url.path[Len(w.body[1].url.path)] \in RoomNames

\* the token store is not read, Slack is not called, no JWT is minted and
\* no invitation is posted
NoTokenNoSlackNoJWT(cs, posted) ==
    /\ posted = <<>>
    /\ \A i \in 1..Len(cs) :
           cs[i] \notin {"TokenReader.GetTokenForTeam", "slack.GetUserInfo",
                         "slack.OpenConversation", "slack.PostMessage", "CreateJWT"}

MentionCommand ==
    /\ calls # <<>>
    /\ ~ParseForm(req.body).err
    /\ ~helpCmdRE(FieldOf(req.body, "text"))
    /\ ~serverCmdRE(FieldOf(req.body, "text"))
    /\ Mentions(req) # <<>>
    /\ Item(tokenStore, Word(FieldOf(req.body, "team_id"))) # ""
    /\ outcome.cfgDb = "ok" /\ outcome.tokDb = "ok"

\* whether the personal URLs of that meeting take a JWT the key cannot sign
JWTFails ==
    /\ Item(serverStore, Word(FieldOf(req.body, "team_id"))) = ""
    /\ LoadPrivateKey(gen.PrivateKey).err # ""

\* the error an attempt ends with when Slack answers it with o: Slack's at
\* GetUserInfo, else that of the JWT, else Slack's at the later calls
AttemptError(o) ==
    IF o.failAt = "GetUserInfo" THEN o.err
    ELSE IF JWTFails THEN "jwt"
    ELSE o.err

\* how often call c was made
Count(cs, c) == Len(SelectSeq(cs, LAMBDA x : x = c))

\* w is 200 with the install message
InstallAnswer(w) == w.status = OK /\ Len(w.body) = 1 /\ w.body[1].msg = "install"

\* w is 200 with the join message for the caller
JoinAnswer(w) == w.status = OK /\ Len(w.body) = 1 /\ w.body[1].msg = "user"

Attempted ==
    LET errs == [i \in 1..Len(outcome.invites) |-> AttemptError(outcome.invites[i])]
    IN  IF \A i \in 1..Len(errs) : errs[i] \notin AuthErrors THEN Len(errs)
        ELSE CHOOSE i \in 1..Len(errs) :
                 errs[i] \in AuthErrors /\ \A j \in 1..(i - 1) : errs[j] \notin AuthErrors

\* the mentions whose invitation went through, in order
Delivered ==
    SelectSeq([i \in 1..Attempted |-> i],
              LAMBDA i : AttemptError(outcome.invites[i]) = "")

C25_AuthErrorEndsRequest ==
    (/\ MentionCommand
     /\ \E i \in 1..Len(outcome.invites) :
            AttemptError(outcome.invites[i]) \in AuthErrors)
        => /\ InstallAnswer(resp) /\ ~resp.panicked
           /\ resp.body[1].host = SharableURL
           /\ Count(calls, "slack.GetUserInfo") = Attempted
           /\ calls[Len(calls)] \in {"slack.GetUserInfo", "slack.PostMessage"}
           /\ Len(sent) < Attempted
           /\ \A j \in 1..Len(sent) :
                  \E i \in 1..(Attempted - 1) : sent[j].to = Mentions(req)[i]

\* of two mentions the first failed with invalid_auth: one call to Slack,
\* nothing posted, the install message
C25_Witness ==
    /\ MentionCommand
    /\ Len(outcome.invites) = 2
    /\ outcome.invites[1].err = "invalid_auth"
    /\ Count(calls, "slack.GetUserInfo") = 1
    /\ sent = <<>>
    /\ InstallAnswer(resp)

----------------------------------------------------------------------------
(* Claims about the server of a team, checked under SpecServer *)

\* the host of the meetings of a team: the server stored for it, else the
\* default conference host
HostOf(servers, team) ==
    IF Item(servers, team) = "" THEN DefaultServer ELSE Item(servers, team)

\* w tells the user that the server of the team was set
ServerWasSet(w) == w.status = OK /\ Len(w.body) = 1 /\ w.body[1].msg = "server-set"

\* w tells the user that the team is back on the default host
DefaultWasSet(w) == w.status = OK /\ Len(w.body) = 1 /\ w.body[1].msg = "default-set"

\* the hosts of the meetings announced in w and in the invitations posted
MeetingHosts(w, posted) ==
    {w.body[i].host : i \in {j \in 1..Len(w.body) : w.body[j].msg \in {"room", "user"}}}
        \cup {posted[i].host : i \in 1..Len(posted)}

\* C18: the server stored for a team changes only when a `server` command
\* of that team succeeds, to the URL of that command or, for `server
\* default`, to none; every meeting generated for a team is on the server
\* stored for it at that time, or on the default conference host if none is
\* stored. So the host of a team's next meeting is that of its most recent
\* successful `server` command, and no team changes the host of another.
C18_HostIsLastConfigured ==
    [][ \A b \in {req'.body} : \A team \in {Word(FieldOf(b, "team_id"))} :
            /\ \A t \in Teams \ {team} : serverStore'[t] = serverStore[t]
            /\ ServerWasSet(resp') =>
                   /\ team \in Teams /\ HostOf(serverStore', team) = serverStore'[team]
                   /\ \E j \in 1..Len(FieldOf(b, "text")) :
                          /\ IsBracketedURL(FieldOf(b, "text")[j])
                          /\ serverStore'[team] = TrimAngles(FieldOf(b, "text")[j])
            /\ DefaultWasSet(resp') =>
                   /\ team \in Teams /\ HostOf(serverStore', team) = DefaultServer
            /\ (~ServerWasSet(resp') /\ ~DefaultWasSet(resp')) =>
                   serverStore' = serverStore
            /\ MeetingHosts(resp', sent') \subseteq {HostOf(serverStore, team)} ]_vars

\* T1 meets on the server it configured last while T2 has another one
C18_Witness ==
    /\ serverStore["T1"] = "https://two.example"
    /\ serverStore["T2"] = "https://own.example"
    /\ Word(FieldOf(req.body, "team_id")) = "T1"
    /\ Len(sent) = 1 /\ sent[1].host = "https://two.example"
    /\ Len(resp.body) = 1 /\ resp.body[1].msg = "user"
    /\ resp.body[1].host = "https://two.example"

\* the URLs of the meeting announced in w and in the invitations posted
AnnouncedURLs(w, posted) ==
    {w.body[i].url : i \in {j \in 1..Len(w.body) : w.body[j].msg \in {"room", "user"}}}
        \cup {posted[i].url : i \in 1..Len(posted)}

\* the URLs announced to a user by name: the join message and the invitations
PersonalURLs(w, posted) ==
    {w.body[i].url : i \in {j \in 1..Len(w.body) : w.body[j].msg = "user"}}
        \cup {posted[i].url : i \in 1..Len(posted)}

\* C22: for every server configuration, the URL of the meeting New builds is
\* server/lowercase(teamName)/room when TenantScopedURLs is set and
\* server/room when it is not; the URL AuthenticatedURL returns is that URL
\* with ?jwt=<token> when AuthenticatedURLSupport is set, after one call to
\* CreateJWT, and that URL as it is when it is not set, without a call to
\* CreateJWT. With the wiring of main, every URL announced for a team is
\* tenant scoped exactly when the team is on the default conference host, a
\* URL carries a token only when the meeting is on the default conference
\* host, and for a team on another server CreateJWT is never called.
C22_TokenOnlyOnDefaultHost ==
    \A team \in {Word(FieldOf(req.body, "team_id"))} :
    \A name \in {Word(FieldOf(req.body, "team_domain"))} :
        /\ \A tsu \in BOOLEAN : \A aus \in BOOLEAN :
           \A server \in {DefaultServer, "https://own.example"} :
           \A m \in {MeetingFor([Server |-> server, TenantScopedURLs |-> tsu,
                                 AuthenticatedURLSupport |-> aus],
                                team, name, outcome.room)} :
           \A a \in {AuthenticatedURL(m, "U1", "alice", "", gen, clock)} :
               /\ m.Host = server
               /\ m.URL = (IF tsu THEN <<server, "/", ToLower(name), "/", outcome.room>>
                           ELSE <<server, "/", outcome.room>>)
               /\ aus => /\ a.calls = <<"CreateJWT">>
                          /\ a.err = "" => a.url.auth /\ a.url.path = m.URL
               /\ ~aus => a = [url |-> [path |-> m.URL, auth |-> FALSE, jwt |-> ""],
                                err |-> "", calls |-> <<>>]
        /\ req.path = "/slash/jitsi" =>
               \A host \in {HostOf(serverStore, team)} :
                   /\ \A u \in AnnouncedURLs(resp, sent) :
                          /\ u.path = (IF host = DefaultServer
                                       THEN <<host, "/", ToLower(name), "/", outcome.room>>
                                       ELSE <<host, "/", outcome.room>>)
                          /\ u.auth => host = DefaultServer
                   /\ \A u \in PersonalURLs(resp, sent) : u.auth <=> host = DefaultServer
                   /\ Count(calls, "CreateJWT") > 0 => host = DefaultServer

\* team T1, on its own server, invited a user: the invitation and the join
\* message carry the plain URL and CreateJWT was not called
C22_Witness ==
    /\ Word(FieldOf(req.body, "team_id")) = "T1"
    /\ serverStore["T1"] = "https://own.example"
    /\ Len(sent) = 1 /\ ~sent[1].url.auth
    /\ sent[1].url.path = <<"https://own.example", "/", outcome.room>>
    /\ JoinAnswer(resp) /\ ~resp.body[1].url.auth
    /\ Count(calls, "CreateJWT") = 0

----------------------------------------------------------------------------
(* Claims about installed and removed teams, checked under SpecInstall *)

\* r is an app_uninstalled event callback for team t that carries Slack's
\* signature at time now
UninstallOf(r, t, now) ==
    /\ r.path = "/slack/event" /\ ~r.readErr
    /\ SecretsVerifier(r, SlackSigningSecret, now) = ""
    /\ ParseEvent(r.body).Type = "event_callback"
    /\ ParseEvent(r.body).Inner = "app_uninstalled"
    /\ ParseEvent(r.body).TeamID = t

\* r is a command of team t to /slash/jitsi
CommandOf(r, t) == r.path = "/slash/jitsi" /\ Word(FieldOf(r.body, "team_id")) = t

\* C17 as stated: once a signed app_uninstalled event for a team has been
\* handled, no token is stored for the team.
C17_UninstallLeavesNoToken ==
    \A t \in Teams :
        (UninstallOf(req, t, clock) /\ resp.status = OK) => tokenStore[t] = ""

\* C17, amended: a signed app_uninstalled event for a team is answered with
\* 200, and leaves no token for the team if the deletion succeeded and the
\* token as it was if it failed. The token of a team changes at such an
\* event and at an OAuth install answered with the redirect, never
\* otherwise. A command with a mention, of a team without token, posts no
\* invitation and calls Slack never; it is answered with the install
\* message when the lookups of server and token succeed, else with 500 or
\* not at all. Every invitation posted carries the token stored for its team.
C17_NoTokenAfterSuccessfulRemoval ==
    [][ \A t \in Teams :
            /\ UninstallOf(req', t, clock) =>
                   /\ resp'.status = OK
                   /\ tokenStore'[t] = (IF outcome'.tokDb = "ok" THEN "" ELSE tokenStore[t])
            /\ tokenStore'[t] # tokenStore[t] =>
                   \/ UninstallOf(req', t, clock) /\ tokenStore'[t] = ""
                   \/ /\ req'.path = "/slack/auth" /\ resp'.status = Found
                      /\ tokenStore'[t] # ""
            /\ CommandOf(req', t) =>
                   /\ \A i \in 1..Len(sent') : sent'[i].token = tokenStore[t]
                   /\ tokenStore[t] = "" =>
                          /\ sent' = <<>>
                          /\ Count(calls', "slack.GetUserInfo") = 0
                          /\ IF outcome'.cfgDb = "ok" /\ outcome'.tokDb = "ok"
                             THEN InstallAnswer(resp')
                             ELSE /\ resp'.body = <<>>
                                  /\ resp'.panicked \/ resp'.status = InternalServerError
      ]_vars

\* team T1, installed at the start, has no token any more and its command
\* is answered with the install message
C17_Witness ==
    /\ CommandOf(req, "T1") /\ tokenStore["T1"] = ""
    /\ outcome.cfgDb = "ok" /\ outcome.tokDb = "ok"
    /\ InstallAnswer(resp) /\ sent = <<>>

\* r carries Slack's signature: the v0 HMAC under the signing secret of the
\* timestamp header and the raw body, with a timestamp that is a number no
\* more than five minutes from now
SignedBySlack(r, now) ==
    /\ r.ts # <<>> /\ r.sig # NoSignature
    /\ ~ParseInt(r.ts).err
    /\ Abs(now - ParseInt(r.ts).val * SubSec) <= FreshnessWindow * SubSec
    /\ r.sig = SlackSignature(SlackSigningSecret, r.body, r.ts)

\* C23: at a request to /slack/event, TokenWriter.Remove is called and a
\* challenge is written only when the body was read and carries Slack's
\* signature; a request with a missing, stale or mismatching signature is
\* answered with 400 or 401, makes no call and leaves the token store as
\* it was.
C23_EventsActOnlyWhenVerified ==
    [][\A r \in {req'} : \A w \in {resp'} : \A cs \in {calls'} :
          r.path = "/slack/event" =>
              /\ Count(cs, "TokenWriter.Remove") > 0
                     => ~r.readErr /\ SignedBySlack(r, clock)
              /\ (\E i \in 1..Len(w.body) : w.body[i].msg = "challenge")
                     => ~r.readErr /\ SignedBySlack(r, clock)
              /\ tokenStore' # tokenStore
                     => ~r.readErr /\ SignedBySlack(r, clock)
              /\ ~SignedBySlack(r, clock)
                     => /\ tokenStore' = tokenStore
                        /\ cs = <<>> /\ w.body = <<>>
                        /\ w.status \in {BadRequest, Unauthorized}]_vars

\* an uninstall of T1 signed under another secret was answered with 401 and
\* the token of T1 is still stored
C23_Witness ==
    /\ req.path = "/slack/event" /\ ~req.readErr
    /\ ParseEvent(req.body).Inner = "app_uninstalled"
    /\ ParseEvent(req.body).TeamID = "T1"
    /\ req.sig # NoSignature
    /\ req.sig # SlackSignature(SlackSigningSecret, req.body, req.ts)
    /\ resp.status = Unauthorized /\ calls = <<>>
    /\ tokenStore["T1"] # ""

\* the error parameter and the number of code parameters of a callback
QueryError(r) == r.body[3]
QueryCodes(r) == ParseInt(<<r.body[7]>>).val

\* C24: at a request to /slack/auth, TokenWriter.Store is called only after
\* slack.GetOAuthV2Response returned without error, with the team and the
\* token of its answer, and 302 is sent only after Store returned without
\* error. access_denied is answered with 200 and any other error with 500,
\* before any call; a missing or repeated code with 500 before any call; a
\* failed exchange with 500 and no Store; a failed Store with 500. Unless
\* Store was called the token store is as it was.
C24_StoreAfterExchangeRedirectAfterStore ==
    [][\A r \in {req'} : \A w \in {resp'} : \A cs \in {calls'} : \A e \in {outcome'} :
          r.path = "/slack/auth" =>
              /\ Count(cs, "TokenWriter.Store") > 0
                     => /\ cs = <<"slack.GetOAuthV2Response", "TokenWriter.Store">>
                        /\ e.oauth.err = ""
                        /\ QueryError(r) = "" /\ QueryCodes(r) = 1
                        /\ e.tokDb = "ok" => tokenStore'[e.oauth.TeamID] = e.oauth.AccessToken
                        /\ \A t \in Teams \ {e.oauth.TeamID} : tokenStore'[t] = tokenStore[t]
              /\ w.status = Found
                     => Count(cs, "TokenWriter.Store") = 1 /\ e.tokDb = "ok"
              /\ QueryError(r) = "access_denied" => w.status = OK /\ cs = <<>>
              /\ QueryError(r) \notin {"", "access_denied"}
                     => w.status = InternalServerError /\ cs = <<>>
              /\ QueryError(r) = "" /\ QueryCodes(r) # 1
                     => w.status = InternalServerError /\ cs = <<>>
              /\ QueryError(r) = "" /\ QueryCodes(r) = 1
                     => /\ Count(cs, "slack.GetOAuthV2Response") = 1
                        /\ e.oauth.err # ""
                               => w.status = InternalServerError
                                      /\ cs = <<"slack.GetOAuthV2Response">>
                        /\ e.oauth.err = "" /\ e.tokDb # "ok"
                               => w.status = InternalServerError
                        /\ e.oauth.err = "" /\ e.tokDb = "ok" => w.status = Found
              /\ Count(cs, "TokenWriter.Store") = 0 => tokenStore' = tokenStore]_vars

\* the install of T2 went through: the code was exchanged, the token stored
\* and the browser redirected
C24_Witness ==
    /\ req.path = "/slack/auth"
    /\ calls = <<"slack.GetOAuthV2Response", "TokenWriter.Store">>
    /\ outcome.oauth.TeamID = "T2" /\ outcome.tokDb = "ok"
    /\ tokenStore["T2"] = "xoxb-T2"
    /\ resp.status = Found

----------------------------------------------------------------------------
(* Claims about requests served at the same time, checked under SpecConc *)

\* What the handler does with the request of locals l when it is the only
\* one: JitsiHandler on that request, with the room name l drew.
HandledAlone(l) ==
    JitsiHandler(l.r,
                 [Quiet EXCEPT !.room = l.parts,
                               !.invites = [i \in 1..Len(Mentions(l.r)) |-> NoFailure]],
                 tokenStore, serverStore, gen, clock)

\* the URLs in the answer and in the invitations of l
URLsOf(l) ==
    {l.w.body[i].url : i \in 1..Len(l.w.body)} \cup {l.sent[i].url : i \in 1..Len(l.sent)}

\* C16: whatever the interleaving, a request that has been answered was
\* verified, answered and its invitations were posted as if it had been
\* handled alone; every URL it produced ends in the room name it drew, every
\* token it produced is for that room and for its own team, and every
\* invitation is in the name of its own user with the token of its team.
C16_AsIfHandledAlone ==
    \A p \in Procs : \A l \in {conc.p[p]} :
        l.pc = "done" =>
            /\ (l.w.status = Unauthorized) <=>
                   ~ValidRequest(SlackSigningSecret, l.r.body, l.r.ts, l.r.sig, Unix(clock))
            /\ l.w = Finish(HandledAlone(l).w)
            /\ l.sent = HandledAlone(l).sent
            /\ \A u \in URLsOf(l) :
                   /\ u.path # <<>> => u.path[Len(u.path)] = l.parts
                   /\ u.auth => /\ u.jwt.payload.room = l.parts
                                /\ u.jwt.payload.sub = Word(FieldOf(l.r.body, "team_domain"))
            /\ \A i \in 1..Len(l.sent) :
                   /\ l.sent[i].from = Word(FieldOf(l.r.body, "user_id"))
                   /\ l.sent[i].token = tokenStore[Word(FieldOf(l.r.body, "team_id"))]

\* both requests were answered, each invited its user, and the second drew
\* its room name while the first was between its own draws
C16_Witness ==
    /\ \A p \in Procs : conc.p[p].pc = "done" /\ Len(conc.p[p].sent) = 1
    /\ conc.p[1].r # conc.p[2].r
    /\ conc.p[1].parts # conc.p[2].parts
    /\ conc.last # conc.p[1].parts
    /\ conc.p[1].parts[2] # (conc.p[1].parts[1] + 1) % WordCount

----------------------------------------------------------------------------
(* Claims about the end of the process, checked under SpecShutdown *)

\* C21: the process does not exit before srv.Shutdown has returned: when it
\* has exited, main is past its call of srv.Shutdown.
C21_NoExitBeforeShutdownReturns ==
    process.exited => process.main \in {"returned", "exit"}

\* the process exited from the goroutine while srv.Shutdown was waiting for
\* a request that was still being served, before its 20 seconds were over
C21_ExitWithRequestInFlight ==
    /\ process.exited /\ process.serve = "fatal"
    /\ process.main = "shutdown"
    /\ process.active > 0 /\ process.elapsed < ShutdownTimeout

====
